---------------------------- MODULE Spec2Model ----------------------------
(***************************************************************************)
(* A model of the timeline extraction and relation graph engine of         *)
(* sho11decade/chronology:                                                 *)
(*   - src/src/dag.py                 graph construction and graph utilities *)
(*   - src/src/timeline_generator.py  event extraction and aggregation       *)
(*   - src/src/japanese_calendar.py   era notation                           *)
(*   - src/src/text_cleaner.py        text normalisation                     *)
(*                                                                         *)
(* Three specifications share the module:                                  *)
(*   SpecGraph  the pure graph functions of dag.py applied to arbitrary    *)
(*              bounded edge lists;                                        *)
(*   SpecText   normalise_input_text applied to bounded texts;             *)
(*   Spec       generate_timeline followed by build_timeline_dag, one      *)
(*              sentence of the input text per step.                       *)
(*                                                                         *)
(* Numbers with decimals are kept as scaled integers: importance and       *)
(* confidence in hundredths, relation strength in thousandths.             *)
(***************************************************************************)
EXTENDS Integers, Sequences, FiniteSets, TLC

VARIABLES
    g,      \* SpecGraph: the call under way on the graph functions
    txt,    \* SpecText: the text handed to normalise_input_text and its results
    tl      \* Spec: the state of one build_timeline_dag invocation

vars == <<g, txt, tl>>

(***************************************************************************)
(* Bounds of the model.                                                    *)
(***************************************************************************)
MaxEdges == 3        \* longest edge list handed to the graph functions
MaxDepthArg == 2     \* largest max_depth handed to find_paths
NodeIds == {1, 2, 3} \* node identifiers of SpecGraph
Strengths == {1, 2}  \* relation strengths of SpecGraph (thousandths)

(***************************************************************************)
(* Generic helpers on sequences.                                           *)
(***************************************************************************)
Range(s) == {s[i] : i \in 1..Len(s)}

Reverse(s) == [i \in 1..Len(s) |-> s[Len(s) + 1 - i]]

Front(s) == SubSeq(s, 1, Len(s) - 1)

Last(s) == s[Len(s)]

Min2(a, b) == IF a <= b THEN a ELSE b

Max2(a, b) == IF a >= b THEN a ELSE b

\* The elements of s without repetitions, each at its first position
\* (the key order of a Python dict filled in the order of s).
RECURSIVE DedupFrom(_, _, _)
DedupFrom(s, i, acc) ==
    IF i > Len(s) THEN acc
    ELSE DedupFrom(s, i + 1, IF s[i] \in Range(acc) THEN acc ELSE Append(acc, s[i]))

Dedup(s) == DedupFrom(s, 1, <<>>)

\* All sequences over S of length at most n.
RECURSIVE SeqsUpTo(_, _)
SeqsUpTo(S, n) ==
    IF n = 0 THEN {<<>>}
    ELSE LET shorter == SeqsUpTo(S, n - 1)
         IN  shorter \cup {Append(s, x) : s \in {t \in shorter : Len(t) = n - 1}, x \in S}

(***************************************************************************)
(* dag.py: adjacency list.  A dict is a pair of its keys in insertion      *)
(* order and the function from key to value.                               *)
(***************************************************************************)
build_adjacency_list(edges) ==
    LET srcs == [i \in 1..Len(edges) |-> edges[i].source_id]
        outOf(u) == LET sel == SelectSeq(edges, LAMBDA e : e.source_id = u)
                    IN  [i \in 1..Len(sel) |-> sel[i].target_id]
    IN  [keys |-> Dedup(srcs), succ |-> [u \in Range(srcs) |-> outOf(u)]]

\* adj.get(u, [])
adj_get(adj, u) == IF u \in DOMAIN adj.succ THEN adj.succ[u] ELSE <<>>

(***************************************************************************)
(* dag.py: _find_cycle.  Optional values are sequences of length at most   *)
(* one: <<>> is None, <<x>> is x.  The DFS state is the three containers   *)
(* of the closure plus the value returned.                                 *)
(***************************************************************************)
parent_get(parent, n) == IF n \in DOMAIN parent THEN parent[n] ELSE <<>>

\* the while loop of lines 367-369: walk the parent pointers from u back to v
RECURSIVE cycle_back(_, _, _, _)
cycle_back(cycle, cur, v, parent) ==
    IF cur = <<>> \/ cur[1] = v THEN cycle
    ELSE cycle_back(Append(cycle, cur[1]), parent_get(parent, cur[1]), v, parent)

RECURSIVE dfs(_, _, _), dfs_loop(_, _, _, _)
dfs(adj, u, st) ==
    dfs_loop(adj, u, 1, [st EXCEPT !.visited = @ \cup {u}, !.stack = @ \cup {u}])

dfs_loop(adj, u, i, st) ==
    LET succ == adj_get(adj, u) IN
    IF i > Len(succ) THEN [st EXCEPT !.stack = @ \ {u}]
    ELSE LET v == succ[i] IN
         IF v \notin st.visited
         THEN LET r == dfs(adj, v, [st EXCEPT !.parent = (v :> <<u>>) @@ @])
              IN  IF r.res # <<>> THEN r ELSE dfs_loop(adj, u, i + 1, r)
         ELSE IF v \in st.stack
         THEN [st EXCEPT !.res = Reverse(cycle_back(<<v>>, <<u>>, v, st.parent))]
         ELSE dfs_loop(adj, u, i + 1, st)

RECURSIVE find_cycle_loop(_, _, _)
find_cycle_loop(adj, i, st) ==
    IF i > Len(adj.keys) THEN <<>>
    ELSE LET node == adj.keys[i] IN
         IF node \in st.visited THEN find_cycle_loop(adj, i + 1, st)
         ELSE LET r == dfs(adj, node, [st EXCEPT !.parent = (node :> <<>>) @@ @])
              IN  IF r.res # <<>> THEN r.res ELSE find_cycle_loop(adj, i + 1, r)

\* None is <<>>; a cycle is a non-empty sequence of node ids
_find_cycle(adj) ==
    find_cycle_loop(adj, 1, [visited |-> {}, stack |-> {}, parent |-> <<>>, res |-> <<>>])

(***************************************************************************)
(* dag.py: detect_and_resolve_cycles.  edge_map is the dict keyed by       *)
(* (source_id, target_id): its values in key insertion order, a repeated   *)
(* key keeping its first position and its last value.                      *)
(***************************************************************************)
EdgeKey(e) == <<e.source_id, e.target_id>>

edge_map_of(edges) ==
    LET keys == Dedup([i \in 1..Len(edges) |-> EdgeKey(edges[i])])
        lastAt(k) == CHOOSE i \in 1..Len(edges) :
                        /\ EdgeKey(edges[i]) = k
                        /\ \A j \in (i + 1)..Len(edges) : EdgeKey(edges[j]) # k
    IN  [i \in 1..Len(keys) |-> edges[lastAt(keys[i])]]

\* faulty variant: the edge that closes the cycle is not looked up
cycle_candidates_unclosed(edge_map, cycle) ==
    LET n == Len(cycle)
        pairAt(i) == <<cycle[i], cycle[i + 1]>>
        hits(i) == SelectSeq(edge_map, LAMBDA e : EdgeKey(e) = pairAt(i))
        RECURSIVE collect(_)
        collect(i) == IF i >= n THEN <<>> ELSE hits(i) \o collect(i + 1)
    IN  collect(1)

\* lines 393-399: the edges of edge_map along the cycle, closing edge included
cycle_candidates(edge_map, cycle) ==
    LET n == Len(cycle)
        pairAt(i) == <<cycle[i], cycle[(i % n) + 1]>>
        hits(i) == SelectSeq(edge_map, LAMBDA e : EdgeKey(e) = pairAt(i))
        RECURSIVE collect(_)
        collect(i) == IF i > n THEN <<>> ELSE hits(i) \o collect(i + 1)
    IN  collect(1)

\* faulty variant: the first candidate, whatever its strength
weakest_of_first(candidates) == candidates[1]

\* min(candidates, key=relation_strength): the first of the weakest
weakest_of(candidates) ==
    LET i == CHOOSE i \in 1..Len(candidates) :
                /\ \A j \in 1..Len(candidates) :
                       candidates[i].relation_strength <= candidates[j].relation_strength
                /\ \A j \in 1..(i - 1) :
                       candidates[j].relation_strength > candidates[i].relation_strength
    IN  candidates[i]

RECURSIVE resolve_loop(_, _)
resolve_loop(edge_map, cycle) ==
    IF cycle = <<>> THEN edge_map
    ELSE LET candidates == cycle_candidates(edge_map, cycle) IN
         IF candidates = <<>> THEN edge_map
         ELSE LET weakest == weakest_of(candidates)
                  popped == SelectSeq(edge_map, LAMBDA e : EdgeKey(e) # EdgeKey(weakest))
              IN  resolve_loop(popped, _find_cycle(build_adjacency_list(popped)))

detect_and_resolve_cycles(edges) ==
    LET cycle == _find_cycle(build_adjacency_list(edges))
    IN  IF cycle = <<>> THEN edges ELSE resolve_loop(edge_map_of(edges), cycle)

(***************************************************************************)
(* dag.py: transitive reduction.                                           *)
(***************************************************************************)
\* the while loop of _has_alternative_path: stack is the explicit DFS stack
RECURSIVE alt_path_loop(_, _, _, _, _)
\* faulty variant: only the successors of the first node are looked at
alt_path_loop_one_hop(stack, seen, dst, adj, exclude) ==
    IF stack = <<>> THEN FALSE
    ELSE LET u == Last(stack)
         IN  dst \in Range(SelectSeq(adj_get(adj, u), LAMBDA v : <<u, v>> # exclude))

alt_path_loop(stack, seen, dst, adj, exclude) ==
    IF stack = <<>> THEN FALSE
    ELSE LET u == Last(stack)
             rest == Front(stack)
         IN  IF u \in seen THEN alt_path_loop(rest, seen, dst, adj, exclude)
             ELSE LET followed == SelectSeq(adj_get(adj, u), LAMBDA v : <<u, v>> # exclude)
                  IN  IF dst \in Range(followed) THEN TRUE
                      ELSE alt_path_loop(rest \o followed, seen \cup {u}, dst, adj, exclude)

\* faulty variant: the direct edge is not excluded from the search
_has_alternative_path_unexcluded(src, dst, adj, exclude) ==
    alt_path_loop(<<src>>, {}, dst, adj, <<>>)

_has_alternative_path(src, dst, adj, exclude) ==
    alt_path_loop(<<src>>, {}, dst, adj, exclude)

reduce_transitive_edges(edges) ==
    LET adj == build_adjacency_list(edges)
    IN  SelectSeq(edges, LAMBDA e :
            ~_has_alternative_path(e.source_id, e.target_id, adj, EdgeKey(e)))

(***************************************************************************)
(* dag.py: topological_sort (Kahn).  nodes is the list of node ids; the    *)
(* in_deg dict holds the nodes in input order, then any edge target that   *)
(* is no node, in order of first use.  An edge whose source is no node is  *)
(* a KeyError at line 292: callers pass edges over the nodes.              *)
(***************************************************************************)
in_deg_keys(nodes, edges) ==
    Dedup(nodes \o [i \in 1..Len(edges) |-> edges[i].target_id])

in_deg_init(nodes, edges) ==
    [n \in Range(in_deg_keys(nodes, edges)) |->
        Cardinality({i \in 1..Len(edges) : edges[i].target_id = n})]

\* lines 300-303: the for loop over adj[nid]
RECURSIVE relax(_, _, _, _)
relax(succ, i, in_deg, queue) ==
    IF i > Len(succ) THEN [in_deg |-> in_deg, queue |-> queue]
    ELSE LET nxt == succ[i]
             dec == [in_deg EXCEPT ![nxt] = @ - 1]
         IN  relax(succ, i + 1, dec, IF dec[nxt] = 0 THEN Append(queue, nxt) ELSE queue)

\* lines 297-303: the while loop
RECURSIVE kahn_loop(_, _, _, _)
kahn_loop(adj, queue, in_deg, ordered) ==
    IF queue = <<>> THEN ordered
    ELSE LET nid == Head(queue)
             r == relax(adj_get(adj, nid), 1, in_deg, Tail(queue))
         IN  kahn_loop(adj, r.queue, r.in_deg, Append(ordered, nid))

topological_sort(nodes, edges) ==
    LET in_deg == in_deg_init(nodes, edges)
        keys == in_deg_keys(nodes, edges)
        queue == SelectSeq(keys, LAMBDA n : in_deg[n] = 0)
        ordered == kahn_loop(build_adjacency_list(edges), queue, in_deg, <<>>)
    IN  SelectSeq(ordered, LAMBDA n : n \in Range(nodes))

(***************************************************************************)
(* dag.py: find_paths.  results is threaded through the recursion.         *)
(***************************************************************************)
RECURSIVE paths_dfs(_, _, _, _, _, _, _), paths_loop(_, _, _, _, _, _, _, _)
paths_dfs(adj, cur, target, path, depth, max_depth, results) ==
    IF depth > max_depth THEN results
    ELSE IF cur = target THEN Append(results, path)
    ELSE paths_loop(adj, cur, target, path, depth, max_depth, results, 1)

\* faulty variant: a node already on the path is entered again
paths_loop_revisiting(adj, cur, target, path, depth, max_depth, results, i) ==
    LET succ == adj_get(adj, cur) IN
    IF i > Len(succ) THEN results
    ELSE LET nxt == succ[i]
             after == paths_dfs(adj, nxt, target, Append(path, nxt),
                                depth + 1, max_depth, results)
         IN  paths_loop(adj, cur, target, path, depth, max_depth, after, i + 1)

paths_loop(adj, cur, target, path, depth, max_depth, results, i) ==
    LET succ == adj_get(adj, cur) IN
    IF i > Len(succ) THEN results
    ELSE LET nxt == succ[i]
             after == IF nxt \in Range(path) THEN results
                      ELSE paths_dfs(adj, nxt, target, Append(path, nxt),
                                     depth + 1, max_depth, results)
         IN  paths_loop(adj, cur, target, path, depth, max_depth, after, i + 1)

\* faulty variant: the start node already counts as one step
find_paths_from_depth_one(start_node_id, end_node_id, edges, max_depth) ==
    paths_dfs(build_adjacency_list(edges), start_node_id, end_node_id,
              <<start_node_id>>, 1, max_depth, <<>>)

find_paths(start_node_id, end_node_id, edges, max_depth) ==
    paths_dfs(build_adjacency_list(edges), start_node_id, end_node_id,
              <<start_node_id>>, 0, max_depth, <<>>)

(***************************************************************************)
(* Graph notions the properties are stated with (not code).                *)
(***************************************************************************)
EdgePairs(edges) == {EdgeKey(edges[i]) : i \in 1..Len(edges)}

\* the nodes reachable from u by one or more edges of the set of pairs E
RECURSIVE ReachFrom(_, _)
ReachFrom(front, E) ==
    LET next == front \cup {p[2] : p \in {q \in E : q[1] \in front}}
    IN  IF next = front THEN front ELSE ReachFrom(next, E)

Reaches(u, v, E) == v \in ReachFrom({p[2] : p \in {q \in E : q[1] = u}}, E)

Acyclic(E) == \A p \in E : ~Reaches(p[1], p[1], E)

IsSubSeq(s, t) ==
    \E f \in [1..Len(s) -> 1..Len(t)] :
        /\ \A i \in 1..Len(s) : s[i] = t[f[i]]
        /\ \A i, j \in 1..Len(s) : i < j => f[i] < f[j]

(***************************************************************************)
(* SpecGraph: the graph functions as operations on a bounded edge list.    *)
(* The call record g holds the input (nodes, edges), the operation applied *)
(* (op) and what it returned (out).  detect_and_resolve_cycles is followed *)
(* by reduce_transitive_edges as in build_timeline_dag (lines 270-272).    *)
(***************************************************************************)
GraphEdge(p, w) == [source_id |-> p[1], target_id |-> p[2], relation_strength |-> w]

PairLists == SeqsUpTo(NodeIds \X NodeIds, MaxEdges)

NodeOrders == {s \in [1..Cardinality(NodeIds) -> NodeIds] : Range(s) = NodeIds}

NoCall == [op |-> "none"]

InitGraph ==
    /\ \E ps \in PairLists : g = [op |-> "input", pairs |-> ps]
    /\ txt = NoCall
    /\ tl = NoCall

\* the caller builds the edges (any strengths) and resolves cycles
GDetectCycles ==
    /\ g.op = "input"
    /\ \E w \in [1..Len(g.pairs) -> Strengths] :
          LET edges == [i \in 1..Len(g.pairs) |-> GraphEdge(g.pairs[i], w[i])]
          IN  g' = [op |-> "cycles", edges |-> edges,
                    out |-> detect_and_resolve_cycles(edges)]
    /\ UNCHANGED <<txt, tl>>

GReduce ==
    /\ g.op = "cycles"
    /\ g' = [op |-> "reduced", edges |-> g.out, out |-> reduce_transitive_edges(g.out)]
    /\ UNCHANGED <<txt, tl>>

GTopologicalSort ==
    /\ g.op = "input"
    /\ \E nodes \in NodeOrders :
          LET edges == [i \in 1..Len(g.pairs) |-> GraphEdge(g.pairs[i], 1)]
          IN  g' = [op |-> "sorted", nodes |-> nodes, edges |-> edges,
                    out |-> topological_sort(nodes, edges)]
    /\ UNCHANGED <<txt, tl>>

GFindPaths ==
    /\ g.op = "input"
    /\ \E a \in NodeIds, b \in NodeIds, d \in 0..MaxDepthArg :
          LET edges == [i \in 1..Len(g.pairs) |-> GraphEdge(g.pairs[i], 1)]
          IN  g' = [op |-> "paths", start |-> a, end |-> b, max_depth |-> d,
                    edges |-> edges, out |-> find_paths(a, b, edges, d)]
    /\ UNCHANGED <<txt, tl>>

NextGraph == GDetectCycles \/ GReduce \/ GTopologicalSort \/ GFindPaths

SpecGraph == InitGraph /\ [][NextGraph]_vars

(***************************************************************************)
(* SpecCycles: detect_and_resolve_cycles one loop iteration at a time.     *)
(* The call record holds the locals edge_map and cycle; removed is the     *)
(* history of the iterations: the edge popped, and the cycle and edge_map  *)
(* it was popped from; broke tells whether the loop was left by its break. *)
(***************************************************************************)
\* lines 385-390: the first search; an acyclic input is returned as it is
CStart ==
    /\ g.op = "input"
    /\ \E w \in [1..Len(g.pairs) -> Strengths] :
          LET edges == [i \in 1..Len(g.pairs) |-> GraphEdge(g.pairs[i], w[i])]
              cycle == _find_cycle(build_adjacency_list(edges))
          IN  g' = IF cycle = <<>>
                   THEN [op |-> "resolved", edges |-> edges, removed |-> <<>>,
                         broke |-> FALSE, out |-> edges]
                   ELSE [op |-> "resolving", edges |-> edges, removed |-> <<>>,
                         edge_map |-> edge_map_of(edges), cycle |-> cycle]
    /\ UNCHANGED <<txt, tl>>

\* lines 391-406: one pass through the body of the while loop; without
\* candidates the loop is left (break) and line 407 returns
CIterate ==
    /\ g.op = "resolving" /\ g.cycle # <<>>
    /\ LET candidates == cycle_candidates(g.edge_map, g.cycle) IN
       IF candidates = <<>>
       THEN g' = [op |-> "resolved", edges |-> g.edges, removed |-> g.removed,
                  broke |-> TRUE, out |-> g.edge_map]
       ELSE LET weakest == weakest_of(candidates)
                popped == SelectSeq(g.edge_map, LAMBDA e : EdgeKey(e) # EdgeKey(weakest))
            IN  g' = [g EXCEPT !.edge_map = popped,
                               !.cycle = _find_cycle(build_adjacency_list(popped)),
                               !.removed = Append(@, [edge |-> weakest, cycle |-> g.cycle,
                                                      edge_map |-> g.edge_map])]
    /\ UNCHANGED <<txt, tl>>

\* line 407: the loop has ended, the values of edge_map are returned
CReturn ==
    /\ g.op = "resolving" /\ g.cycle = <<>>
    /\ g' = [op |-> "resolved", edges |-> g.edges, removed |-> g.removed,
             broke |-> FALSE, out |-> g.edge_map]
    /\ UNCHANGED <<txt, tl>>

NextCycles == CStart \/ CIterate \/ CReturn

SpecCycles == InitGraph /\ [][NextCycles]_vars

(***************************************************************************)
(* text_cleaner.py.  A text is a sequence of characters, each a string.    *)
(* The alphabet holds one representative of every character class the     *)
(* patterns of normalise_input_text tell apart on it; "amp;" stands for    *)
(* the four characters a, m, p, ; in a row (so "&" followed by "amp;" is   *)
(* the HTML entity of "&"), "mid" for the middle dot U+30FB, "maru" for   *)
(* the ideographic full stop U+3002, "lp" and "rp" for the full-width      *)
(* parentheses U+FF08 and U+FF09, "x" for a letter, "1" for a digit and    *)
(* "!" for any of the marks ! ? U+FF01 U+FF1F.  The patterns that need a character outside    *)
(* the alphabet (catalog codes, <ref> tags, templates, ASCII parentheses,  *)
(* ISBN, section headings, metadata prefixes) match nothing here.          *)
(***************************************************************************)
MaxTextLen == 3

Alphabet == {"x", "1", " ", "\n", "mid", "maru", "!", "&", "amp;", "[", "]", "lp", "rp"}

Whitespace == {" ", "\n"}

Digits == {"1"}

\* [0-9a-zA-Z] and the full-width digits
AlphaNumeric == {"x", "1"}

\* BULLET_PREFIXES (line 49), those of the alphabet
BULLET_PREFIXES == <<"mid">>

StartsWith(s, pre) == Len(s) >= Len(pre) /\ SubSeq(s, 1, Len(pre)) = pre

EndsWith(s, suf) == Len(s) >= Len(suf) /\ SubSeq(s, Len(s) - Len(suf) + 1, Len(s)) = suf

RECURSIVE LStrip(_, _)
LStrip(s, chars) ==
    IF s # <<>> /\ Head(s) \in chars THEN LStrip(Tail(s), chars) ELSE s

RECURSIVE RStrip(_, _)
RStrip(s, chars) ==
    IF s # <<>> /\ Last(s) \in chars THEN RStrip(Front(s), chars) ELSE s

\* str.strip()
Strip(s) == RStrip(LStrip(s, Whitespace), Whitespace)

\* str.replace / re.sub of a fixed string: leftmost, non-overlapping, one pass
RECURSIVE ReplaceAll(_, _, _)
ReplaceAll(s, pat, rep) ==
    IF s = <<>> THEN <<>>
    ELSE IF StartsWith(s, pat) THEN rep \o ReplaceAll(SubSeq(s, Len(pat) + 1, Len(s)), pat, rep)
    ELSE <<Head(s)>> \o ReplaceAll(Tail(s), pat, rep)

\* the length of the longest prefix of s made of characters of class
RECURSIVE RunLen(_, _)
RunLen(s, class) ==
    IF s # <<>> /\ Head(s) \in class THEN 1 + RunLen(Tail(s), class) ELSE 0

\* the replace callback of _remove_noise_parentheses (lines 107-121)
noise_replace(inner) ==
    LET stripped == Strip(inner)
    IN  IF stripped = <<>> THEN <<" ">>
        ELSE IF Len(stripped) <= 3 /\ Range(stripped) \subseteq AlphaNumeric THEN <<" ">>
        ELSE <<"lp">> \o inner \o <<"rp">>

\* what a match with the given inner text is replaced by: "" for the
\* citation patterns, the callback's result for the noise pattern
bracket_replacement(how, inner) ==
    IF how = "callback" THEN noise_replace(inner) ELSE <<>>

\* re.sub of  open [class]{least,} close : every match, leftmost first
RECURSIVE SubBracketed(_, _, _, _, _, _)
SubBracketed(s, open, close, class, least, how) ==
    IF s = <<>> THEN <<>>
    ELSE LET n == RunLen(Tail(s), class)
             matches == /\ Head(s) = open
                        /\ n >= least
                        /\ Len(s) >= n + 2
                        /\ s[n + 2] = close
         IN  IF matches
             THEN bracket_replacement(how, SubSeq(s, 2, n + 1))
                      \o SubBracketed(SubSeq(s, n + 3, Len(s)), open, close, class, least, how)
             ELSE <<Head(s)>> \o SubBracketed(Tail(s), open, close, class, least, how)

\* str.splitlines()
RECURSIVE splitlines_from(_, _)
splitlines_from(s, cur) ==
    IF s = <<>> THEN (IF cur = <<>> THEN <<>> ELSE <<cur>>)
    ELSE IF Head(s) = "\n" THEN <<cur>> \o splitlines_from(Tail(s), <<>>)
    ELSE splitlines_from(Tail(s), Append(cur, Head(s)))

splitlines(s) == splitlines_from(s, <<>>)

\* "\n".join(lines)
RECURSIVE join_lines(_)
join_lines(lines) ==
    IF lines = <<>> THEN <<>>
    ELSE IF Len(lines) = 1 THEN lines[1]
    ELSE lines[1] \o <<"\n">> \o join_lines(Tail(lines))

\* re.sub of  [class]+  by rep
RECURSIVE collapse_runs(_, _, _)
collapse_runs(s, class, rep) ==
    IF s = <<>> THEN <<>>
    ELSE LET n == RunLen(s, class)
         IN  IF n > 0 THEN rep \o collapse_runs(SubSeq(s, n + 1, Len(s)), class, rep)
             ELSE <<Head(s)>> \o collapse_runs(Tail(s), class, rep)

\* re.sub of  \n{2,}  by \n
RECURSIVE collapse_newlines(_)
collapse_newlines(s) ==
    IF s = <<>> THEN <<>>
    ELSE LET n == RunLen(s, {"\n"})
         IN  IF n >= 2 THEN <<"\n">> \o collapse_newlines(SubSeq(s, n + 1, Len(s)))
             ELSE <<Head(s)>> \o collapse_newlines(Tail(s))

\* html.unescape: the one entity of the alphabet
html_unescape(s) == ReplaceAll(s, <<"&", "amp;">>, <<"&">>)

\* CITATION_PATTERN.sub("", text)
remove_citations(s) == SubBracketed(s, "[", "]", Digits, 1, "empty")

\* PAREN_REFERENCE_PATTERN.sub("", text)
remove_paren_references(s) == SubBracketed(s, "lp", "rp", Digits, 1, "empty")

_remove_noise_parentheses(s) ==
    SubBracketed(s, "lp", "rp", Alphabet \ {"lp", "rp"}, 0, "callback")

_strip_wikipedia_metadata(lines) ==
    LET stripped == [i \in 1..Len(lines) |-> Strip(lines[i])]
    IN  SelectSeq(stripped, LAMBDA l :
            /\ l # <<>>
            /\ ~(StartsWith(l, <<"[", "[">>) /\ EndsWith(l, <<"]", "]">>)))

\* the for loop of lines 81-84: the first matching prefix is removed once
strip_bullet(line) ==
    LET stripped == Strip(line)
        hit == {i \in 1..Len(BULLET_PREFIXES) : StartsWith(stripped, <<BULLET_PREFIXES[i]>>)}
    IN  IF hit = {} THEN stripped ELSE Strip(Tail(stripped))

_normalise_bullets(lines) == [i \in 1..Len(lines) |-> strip_bullet(lines[i])]

\* lines 150-152: separators around the middle dot, a line break after
\* every sentence-final mark
RECURSIVE mark_breaks(_)
mark_breaks(s) ==
    IF s = <<>> THEN <<>>
    ELSE (CASE Head(s) = "mid" -> <<" ", "mid", " ">>
            [] Head(s) \in {"maru", "!"} -> <<Head(s), "\n">>
            [] OTHER -> <<Head(s)>>) \o mark_breaks(Tail(s))

normalise_input_text(text) ==
    IF text = <<>> THEN <<>>
    ELSE LET t1 == html_unescape(text)
             t2 == remove_citations(t1)
             t3 == remove_paren_references(t2)
             t4 == _remove_noise_parentheses(t3)
             lines == _normalise_bullets(_strip_wikipedia_metadata(splitlines(t4)))
             c1 == collapse_runs(join_lines(lines), {" "}, <<" ">>)
             c2 == mark_breaks(collapse_newlines(c1))
             segs == SelectSeq([i \in 1..Len(splitlines(c2)) |-> Strip(splitlines(c2)[i])],
                               LAMBDA l : l # <<>>)
         IN  Strip(join_lines(segs))

(***************************************************************************)
(* SpecText: normalise_input_text applied to a text, then to its result.   *)
(***************************************************************************)
InitText ==
    /\ \E t \in SeqsUpTo(Alphabet, MaxTextLen) : txt = [op |-> "input", text |-> t]
    /\ g = NoCall
    /\ tl = NoCall

TNormalise ==
    /\ txt.op = "input"
    /\ txt' = [op |-> "normalised", text |-> txt.text, out |-> normalise_input_text(txt.text)]
    /\ UNCHANGED <<g, tl>>

\* the caller hands the normalised text back (generate_timeline on a text
\* that was normalised before)
TNormaliseAgain ==
    /\ txt.op = "normalised"
    /\ txt' = [op |-> "renormalised", text |-> txt.text, out |-> txt.out,
               again |-> normalise_input_text(txt.out)]
    /\ UNCHANGED <<g, tl>>

NextText == TNormalise \/ TNormaliseAgain

SpecText == InitText /\ [][NextText]_vars

(***************************************************************************)
(* Calendar arithmetic of the Python library, as the code uses it.         *)
(* None is <<>>; an ISO date "yyyy-mm-dd" is the triple <<y, m, d>>.       *)
(***************************************************************************)
None == <<>>

\* datetime.MAXYEAR: date(year, ...) raises ValueError beyond it
MAXYEAR == 9999

isleap(year) == year % 4 = 0 /\ (year % 100 # 0 \/ year % 400 = 0)

\* calendar.monthrange(year, month)[1]
monthrange_last(year, month) ==
    CASE month \in {4, 6, 9, 11} -> 30
      [] month = 2 -> (IF isleap(year) THEN 29 ELSE 28)
      [] OTHER -> 31

\* whether date(year, month, day) is constructed (otherwise ValueError)
date_constructs(year, month, day) ==
    /\ 1 <= year /\ year <= MAXYEAR
    /\ 1 <= month /\ month <= 12
    /\ 1 <= day /\ day <= monthrange_last(year, month)

\* date.toordinal(): days since 0001-01-01, that day being 1
days_before_month(year, month) ==
    LET RECURSIVE upto(_)
        upto(m) == IF m = 0 THEN 0 ELSE monthrange_last(year, m) + upto(m - 1)
    IN  upto(month - 1)

toordinal(iso) ==
    LET y == iso[1] - 1
    IN  365 * y + (y \div 4) - (y \div 100) + (y \div 400)
            + days_before_month(iso[1], iso[2]) + iso[3]

clamp(v, lo, hi) == Min2(Max2(v, lo), hi)

\* tuples of integers in Python's order
RECURSIVE TupleLess(_, _)
TupleLess(a, b) ==
    IF a = <<>> THEN b # <<>>
    ELSE IF b = <<>> THEN FALSE
    ELSE IF Head(a) # Head(b) THEN Head(a) < Head(b)
    ELSE TupleLess(Tail(a), Tail(b))

(***************************************************************************)
(* japanese_calendar.py.  Era names are written in Latin letters.  The     *)
(* numerals of a match are given by their values (the numeral converters   *)
(* are applied by the matcher); 0 for a month or a day means the group     *)
(* did not match.                                                          *)
(***************************************************************************)
ERA_OFFSETS ==
    [era \in {"reiwa", "heisei", "showa", "taisho", "meiji"} |->
        CASE era = "reiwa" -> 2018
          [] era = "heisei" -> 1988
          [] era = "showa" -> 1925
          [] era = "taisho" -> 1911
          [] era = "meiji" -> 1867]

\* lines 108-130.  The result is [raised, iso]: raised when the date() of
\* the except branch (line 129) raises ValueError in its turn.
normalise_era_notation(m) ==
    LET year_num == m.year
        month_num == clamp(IF m.month = 0 THEN 1 ELSE m.month, 1, 12)
        day_num == clamp(IF m.day = 0 THEN 1 ELSE m.day, 1, 28)
        gregorian_year == ERA_OFFSETS[m.era] + year_num
    IN  IF date_constructs(gregorian_year, month_num, day_num)
        THEN [raised |-> FALSE, iso |-> <<gregorian_year, month_num, day_num>>]
        ELSE IF date_constructs(gregorian_year, month_num, 1)
        THEN [raised |-> FALSE, iso |-> <<gregorian_year, month_num, 1>>]
        ELSE [raised |-> TRUE, iso |-> None]

(***************************************************************************)
(* timeline_generator.py: dates.                                           *)
(*                                                                         *)
(* A date match is [kind, era, year, month, day]: kind "era", "rel"        *)
(* (N years ago; year holds N), "greg" (the DATE_PATTERNS) or "fiscal";    *)
(* era is "" unless kind is "era" or "erafiscal" (an ERA_PATTERN match     *)
(* whose suffix group is the fiscal one).  The match stands for the text   *)
(* it matched (date_text): two matches are the same text when equal.       *)
(* Years are at most a few thousand here; numerals beyond the range of a   *)
(* C int, where date() raises OverflowError, are outside the model.        *)
(***************************************************************************)
DateMatch(kind, era, year, month, day) ==
    [kind |-> kind, era |-> era, year |-> year, month |-> month, day |-> day]

\* faulty variant: years below 100 get an ISO date too
_safe_iso_date_any_year(year, month, day) ==
    LET m == clamp(month, 1, 12)
        d == clamp(day, 1, monthrange_last(year, m))
    IN  <<year, m, d>>

_safe_iso_date(year, month, day) ==
    IF year < 100 THEN None
    ELSE LET m == clamp(month, 1, 12)
             d == clamp(day, 1, monthrange_last(year, m))
         IN  IF date_constructs(year, m, d) THEN <<year, m, d>> ELSE None

\* returns <<iso_candidate, relative_years>>
_relative_year_to_iso(years, reference_year) ==
    IF years <= 0 THEN <<None, None>>
    ELSE LET target_year == reference_year - years
         IN  <<IF target_year > 0 THEN _safe_iso_date(target_year, 1, 1) ELSE None,
               <<years>>>>

\* what ERA_REGEX (japanese_calendar.py line 50) reads from the text of an
\* ERA_PATTERN match: it knows no fiscal suffix, so after the year sign of
\* a fiscal match it finds neither month nor day
era_regex_groups(m) ==
    IF m.kind = "erafiscal" THEN [m EXCEPT !.month = 0, !.day = 0] ELSE m

\* faulty variant: a Gregorian date that does not resolve falls back to the
\* first day of the reference year
raw_event_reference_fallback(m, reference_year) ==
    LET base == [date_text |-> m, date_iso |-> None, relative_years |-> None,
                 reference_year |-> reference_year]
    IN  CASE m.kind \in {"era", "erafiscal"} ->
               [base EXCEPT !.date_iso = normalise_era_notation(era_regex_groups(m)).iso]
          [] m.kind = "rel" ->
               LET r == _relative_year_to_iso(m.year, reference_year)
               IN  [base EXCEPT !.date_iso = r[1], !.relative_years = r[2]]
          [] m.kind = "greg" ->
               LET iso == _safe_iso_date(m.year, IF m.month = 0 THEN 1 ELSE m.month,
                                                 IF m.day = 0 THEN 1 ELSE m.day)
               IN  [base EXCEPT !.date_iso =
                       IF iso = None THEN _safe_iso_date(reference_year, 1, 1) ELSE iso]
          [] OTHER ->
               [base EXCEPT !.date_iso = _safe_iso_date(m.year, 4, 1)]

\* the RawEvent of one match (lines 303-365)
raw_event(m, reference_year) ==
    LET base == [date_text |-> m, date_iso |-> None, relative_years |-> None,
                 reference_year |-> reference_year]
    IN  CASE m.kind \in {"era", "erafiscal"} ->
               [base EXCEPT !.date_iso = normalise_era_notation(era_regex_groups(m)).iso]
          [] m.kind = "rel" ->
               LET r == _relative_year_to_iso(m.year, reference_year)
               IN  [base EXCEPT !.date_iso = r[1], !.relative_years = r[2]]
          [] m.kind = "greg" ->
               [base EXCEPT !.date_iso =
                   _safe_iso_date(m.year, IF m.month = 0 THEN 1 ELSE m.month,
                                          IF m.day = 0 THEN 1 ELSE m.day)]
          [] OTHER ->
               [base EXCEPT !.date_iso = _safe_iso_date(m.year, 4, 1)]

\* iter_dates: the events of the matches of a sentence, in the order the
\* four loops yield them; a fiscal match of year <= 0 yields nothing
iter_dates(dates, reference_year) ==
    LET kept == SelectSeq(dates, LAMBDA m : ~(m.kind = "fiscal" /\ m.year <= 0))
    IN  [i \in 1..Len(kept) |-> raw_event(kept[i], reference_year)]

\* whether list(iter_dates(...)) raises (normalise_era_notation, line 305)
iter_dates_raises(dates) ==
    \E i \in 1..Len(dates) :
        /\ dates[i].kind \in {"era", "erafiscal"}
        /\ normalise_era_notation(era_regex_groups(dates[i])).raised

\* _parse_sort_candidate: None or <<year, month, day, precision>>.  The
\* last part re-reads date_text with the DATE_PATTERNS: the first pattern
\* that matches the text of a "greg" match is the one that produced it; the
\* text of a "fiscal" or a "rel" match is matched by the year-only pattern.
_parse_sort_candidate(date_iso, date_text, relative_years, reference_year) ==
    IF date_iso # None THEN <<date_iso[1], date_iso[2], date_iso[3], 0>>
    ELSE IF relative_years # None THEN <<reference_year - relative_years[1], 1, 1, 2>>
    ELSE IF date_text.kind \in {"era", "erafiscal"} THEN None
    ELSE IF date_text.year <= 0
    THEN \* only the month-day pattern is left: it reads the month as the year
         IF date_text.kind = "greg" /\ date_text.month > 0 /\ date_text.day # 0
         THEN <<date_text.month, 1, clamp(date_text.day, 1, 31), 0>>
         ELSE None
    ELSE IF date_text.kind = "greg"
    THEN <<date_text.year,
           clamp(IF date_text.month = 0 THEN 1 ELSE date_text.month, 1, 12),
           clamp(IF date_text.day = 0 THEN 1 ELSE date_text.day, 1, 31),
           IF date_text.day # 0 THEN 0 ELSE IF date_text.month # 0 THEN 1 ELSE 2>>
    ELSE <<date_text.year, 1, 1, 2>>

_choose_sort_key(entry, candidate) ==
    IF candidate = None THEN entry
    ELSE LET existing == entry.sort_key IN
         IF existing = None THEN [entry EXCEPT !.sort_key = candidate]
         ELSE IF TupleLess(SubSeq(candidate, 1, 3), SubSeq(existing, 1, 3))
         THEN [entry EXCEPT !.sort_key = candidate]
         ELSE IF SubSeq(candidate, 1, 3) = SubSeq(existing, 1, 3) /\ candidate[4] < existing[4]
         THEN [entry EXCEPT !.sort_key = candidate]
         ELSE entry

(***************************************************************************)
(* timeline_generator.py: sentences.                                       *)
(*                                                                         *)
(* A sentence is given by what the regular expressions, the tokeniser and  *)
(* the classifier read from it:                                            *)
(*   text        the string itself (two sentences are equal when their     *)
(*               texts are)                                                *)
(*   dates       its date matches, in the order iter_dates yields them     *)
(*   meaningful  has_meaningful_content of the sentence                    *)
(*   followup    _is_followup_sentence                                     *)
(*   length      len(sentence)                                             *)
(*   emphasis    the number of tokens that are category keywords           *)
(*   numeral     whether NUMERAL_REGEX finds a numeral                     *)
(*   people, locations   the result of classify_people_locations           *)
(*   category    the result of infer_category                              *)
(*   markers     the phrases of _MARKERS the sentence contains             *)
(***************************************************************************)
\* _MARKERS in dictionary order: <<phrase, relation type, score>>
_MARKERS ==
    << <<"sonotame", "causal", 95>>,
       <<"sonokekka", "causal", 93>>,
       <<"koreniyori", "causal", 92>>,
       <<"koreniyotte", "causal", 92>>,
       <<"kekkatoshite", "causal", 89>>,
       <<"sonogo", "temporal", 80>>,
       <<"yokujitsu", "temporal", 85>>,
       <<"yokugetsu", "temporal", 85>>,
       <<"yokunen", "temporal", 82>>,
       <<"doujini", "parallel", 88>>,
       <<"ippou", "parallel", 85>> >>

\* the wording of a sentence as a sequence of phrases: "koreniyori
\* hajimete" (only through this for the first time) begins with the marker
\* "koreniyori"; "korewo keikini" (taking this as the occasion) holds no
\* phrase of _MARKERS
PrerequisiteWording == <<"koreniyori", "hajimete">>

DerivedWording == <<"korewo", "keikini">>

\* phrase in text, for each phrase of _MARKERS (lines 141, 146)
markers_in(wording) ==
    {w \in Range(wording) : \E i \in 1..Len(_MARKERS) : _MARKERS[i][1] = w}

Worded(wording) == [length |-> 30, emphasis |-> 0, people |-> <<>>, locations |-> <<>>,
                    category |-> "general", markers |-> markers_in(wording)]

Plain == [length |-> 15, emphasis |-> 0, people |-> <<>>, locations |-> <<>>,
          category |-> "general", markers |-> {}]

Detailed == [length |-> 60, emphasis |-> 0, people |-> <<"Sato">>, locations |-> <<"Kyoto">>,
             category |-> "economy", markers |-> {"sonogo"}]

Rich == [length |-> 150, emphasis |-> 2, people |-> <<"Tanaka">>, locations |-> <<"Tokyo">>,
         category |-> "politics", markers |-> {"sonotame"}]

Sentence(text, dates, meaningful, followup, numeral, profile) ==
    [text |-> text, dates |-> dates, meaningful |-> meaningful, followup |-> followup,
     numeral |-> numeral, length |-> profile.length, emphasis |-> profile.emphasis,
     people |-> profile.people, locations |-> profile.locations,
     category |-> profile.category, markers |-> profile.markers]

Greg(y, m, d) == DateMatch("greg", "", y, m, d)

\* the sentences a text is made of
Sentences ==
    { Sentence("greg-2020-05-01", <<Greg(2020, 5, 1)>>, TRUE, FALSE, TRUE, Plain),
      Sentence("greg-2020-05-01-rich", <<Greg(2020, 5, 1)>>, TRUE, FALSE, TRUE, Rich),
      Sentence("greg-2020-13-45", <<Greg(2020, 13, 45)>>, TRUE, FALSE, TRUE, Detailed),
      Sentence("greg-50", <<Greg(50, 0, 0)>>, TRUE, FALSE, TRUE, Plain),
      Sentence("greg-12000", <<Greg(12000, 1, 1)>>, TRUE, FALSE, TRUE, Plain),
      Sentence("reiwa-3-4-1", <<DateMatch("era", "reiwa", 3, 4, 1)>>, TRUE, FALSE, TRUE, Detailed),
      Sentence("reiwa-9999", <<DateMatch("era", "reiwa", 9999, 0, 0)>>, TRUE, FALSE, TRUE, Plain),
      Sentence("5-years-ago", <<DateMatch("rel", "", 5, 0, 0)>>, TRUE, FALSE, TRUE, Plain),
      Sentence("3000-years-ago", <<DateMatch("rel", "", 3000, 0, 0)>>, TRUE, FALSE, TRUE, Detailed),
      Sentence("fiscal-2020", <<DateMatch("fiscal", "", 2020, 0, 0)>>, TRUE, FALSE, TRUE, Plain),
      Sentence("date-only", <<Greg(2021, 1, 1)>>, FALSE, FALSE, TRUE, Plain),
      Sentence("two-dates", <<Greg(2020, 5, 1), Greg(2019, 0, 0)>>, TRUE, FALSE, TRUE, Rich),
      Sentence("same-day-twice", <<Greg(2020, 5, 1), DateMatch("era", "reiwa", 2, 5, 1)>>,
               TRUE, FALSE, TRUE, Plain),
      Sentence("followup", <<>>, TRUE, TRUE, FALSE, Detailed),
      Sentence("followup-rich", <<>>, TRUE, TRUE, FALSE, Rich),
      Sentence("undated", <<>>, TRUE, FALSE, FALSE, Plain),
      Sentence("koreniyori-hajimete-2020-06", <<Greg(2020, 6, 0)>>, TRUE, FALSE, TRUE,
               Worded(PrerequisiteWording)),
      Sentence("korewo-keikini-2020-07", <<Greg(2020, 7, 0)>>, TRUE, FALSE, TRUE,
               Worded(DerivedWording)),
      \* years written after the prefix for "before the common era" (U+7D00
      \* U+5143 U+524D): no pattern of lines 71-84 reads the prefix, the
      \* year pattern matches the numeral and the year sign after it
      Sentence("kigenzen-660", <<Greg(660, 0, 0)>>, TRUE, FALSE, TRUE, Plain),
      Sentence("sonogo-kigenzen-600", <<Greg(600, 0, 0)>>, TRUE, FALSE, TRUE,
               Worded(<<"sonogo">>)) }

(***************************************************************************)
(* timeline_generator.py: scoring.  Scores are hundredths.                 *)
(***************************************************************************)
\* score_importance, in units of 1/3000 before the final round(score, 2)
score_importance(sentence, people_count, location_count) ==
    LET length_bonus == 10 * Min2(sentence.length, 120)
        detail_bonus == Min2(750, 180 * Min2(people_count, 3) + 150 * Min2(location_count, 3))
        numeric_bonus == IF sentence.numeral THEN 150 ELSE 0
        score == Min2(3000, 900 + 600 * sentence.emphasis + length_bonus
                                + detail_bonus + numeric_bonus)
    IN  (score + 15) \div 30

\* -math.inf (line 870), below every score
NEG_INF == -1

\* Counter: the categories in order of first count, with their counts
count_category(counts, category) ==
    IF \E i \in 1..Len(counts) : counts[i][1] = category
    THEN [i \in 1..Len(counts) |->
             IF counts[i][1] = category THEN <<category, counts[i][2] + 1>> ELSE counts[i]]
    ELSE Append(counts, <<category, 1>>)

\* OrderedDict.setdefault(name, None) for each name
RECURSIVE setdefault_all(_, _)
setdefault_all(keys, names) ==
    IF names = <<>> THEN keys
    ELSE setdefault_all(IF Head(names) \in Range(keys) THEN keys ELSE Append(keys, Head(names)),
                        Tail(names))

\* build_title(sentence, date_text): the headline cut from that sentence
build_title(sentence, date_text) == <<sentence.text, date_text>>

\* faulty variant: a sentence that may not take the title leaves the
\* importance alone
_update_entry_with_sentence_title_only(entry, sentence, allow_title_update, event) ==
    LET e1 == [entry EXCEPT
                 !.sentences = IF sentence.text \in Range(@) THEN @ ELSE Append(@, sentence.text),
                 !.people = setdefault_all(@, sentence.people),
                 !.locations = setdefault_all(@, sentence.locations),
                 !.category_counts = count_category(@, sentence.category)]
        importance == score_importance(sentence, Len(sentence.people), Len(sentence.locations))
    IN  IF allow_title_update /\ importance > entry.importance
        THEN [e1 EXCEPT
                 !.importance = importance,
                 !.title = build_title(sentence,
                              IF event # None THEN event[1].date_text ELSE entry.date_text),
                 !.date_text = IF event # None THEN event[1].date_text ELSE @,
                 !.date_iso = IF event # None /\ event[1].date_iso # None
                              THEN event[1].date_iso ELSE @]
        ELSE e1

\* faulty variant: a sentence as important as the current maximum takes
\* over the title
_update_entry_with_sentence_on_ties(entry, sentence, allow_title_update, event) ==
    LET e1 == [entry EXCEPT
                 !.sentences = IF sentence.text \in Range(@) THEN @ ELSE Append(@, sentence.text),
                 !.people = setdefault_all(@, sentence.people),
                 !.locations = setdefault_all(@, sentence.locations),
                 !.category_counts = count_category(@, sentence.category)]
        importance == score_importance(sentence, Len(sentence.people), Len(sentence.locations))
    IN  IF allow_title_update /\ importance >= entry.importance
        THEN [e1 EXCEPT
                 !.importance = importance,
                 !.title = build_title(sentence,
                              IF event # None THEN event[1].date_text ELSE entry.date_text),
                 !.date_text = IF event # None THEN event[1].date_text ELSE @,
                 !.date_iso = IF event # None /\ event[1].date_iso # None
                              THEN event[1].date_iso ELSE @]
        ELSE [e1 EXCEPT !.importance = Max2(@, importance)]

\* event is None for a follow-up sentence, <<RawEvent>> for a dated one
_update_entry_with_sentence(entry, sentence, allow_title_update, event) ==
    LET e1 == [entry EXCEPT
                 !.sentences = IF sentence.text \in Range(@) THEN @ ELSE Append(@, sentence.text),
                 !.people = setdefault_all(@, sentence.people),
                 !.locations = setdefault_all(@, sentence.locations),
                 !.category_counts = count_category(@, sentence.category)]
        importance == score_importance(sentence, Len(sentence.people), Len(sentence.locations))
    IN  IF allow_title_update /\ importance > entry.importance
        THEN [e1 EXCEPT
                 !.importance = importance,
                 !.title = build_title(sentence,
                              IF event # None THEN event[1].date_text ELSE entry.date_text),
                 !.date_text = IF event # None THEN event[1].date_text ELSE @,
                 !.date_iso = IF event # None /\ event[1].date_iso # None
                              THEN event[1].date_iso ELSE @]
        ELSE [e1 EXCEPT !.importance = Max2(@, importance)]

(***************************************************************************)
(* timeline_generator.py: the sentence loop of generate_timeline.          *)
(* aggregated_events is the sequence of its entries in insertion order     *)
(* (appearance_index is the position), each entry carrying its key.        *)
(***************************************************************************)
\* faulty variant: the key is the raw date text even when the date resolves
event_key_by_text(event) == event.date_text

\* key = event.date_iso or event.date_text
event_key(event) ==
    IF event.date_iso # None
    THEN DateMatch("iso", "", event.date_iso[1], event.date_iso[2], event.date_iso[3])
    ELSE event.date_text

new_entry(key, event) ==
    [key |-> key, sentences |-> <<>>, people |-> <<>>, locations |-> <<>>,
     category_counts |-> <<>>, importance |-> NEG_INF, title |-> None,
     date_text |-> event.date_text, date_iso |-> event.date_iso, sort_key |-> None]

index_of_key(aggregated, key) ==
    IF \E i \in 1..Len(aggregated) : aggregated[i].key = key
    THEN CHOOSE i \in 1..Len(aggregated) : aggregated[i].key = key
    ELSE 0

\* lines 856-903: one event of a dated sentence; st is
\* [aggregated, seen_pairs, last_event_key]
fold_event(st, sentence, event) ==
    LET pair == <<sentence.text, event.date_text>>
        key == event_key(event)
    IN  IF pair \in st.seen_pairs THEN st
        ELSE IF ~sentence.meaningful THEN st
        ELSE LET opened == IF index_of_key(st.aggregated, key) = 0
                           THEN Append(st.aggregated, new_entry(key, event))
                           ELSE st.aggregated
                 i == index_of_key(opened, key)
                 keyed == _choose_sort_key(opened[i],
                              _parse_sort_candidate(event.date_iso, event.date_text,
                                                    event.relative_years, event.reference_year))
                 updated == _update_entry_with_sentence(keyed, sentence, TRUE, <<event>>)
             IN  [aggregated |-> [opened EXCEPT ![i] = updated],
                  seen_pairs |-> st.seen_pairs \cup {pair},
                  last_event_key |-> <<key>>]

RECURSIVE fold_events(_, _, _)
fold_events(st, sentence, events) ==
    IF events = <<>> THEN st
    ELSE fold_events(fold_event(st, sentence, Head(events)), sentence, Tail(events))

\* faulty variant: the follow-up sentence may take over the title
fold_followup_titled(st, sentence) ==
    IF st.last_event_key = None \/ ~sentence.followup THEN st
    ELSE LET i == index_of_key(st.aggregated, st.last_event_key[1]) IN
         IF i = 0 THEN st
         ELSE IF ~sentence.meaningful THEN st
         ELSE [st EXCEPT !.aggregated[i] =
                  _update_entry_with_sentence(@, sentence, TRUE, None)]

\* lines 906-925: a sentence without a date match
fold_followup(st, sentence) ==
    IF st.last_event_key = None \/ ~sentence.followup THEN st
    ELSE LET i == index_of_key(st.aggregated, st.last_event_key[1]) IN
         IF i = 0 THEN st
         ELSE IF ~sentence.meaningful THEN st
         ELSE [st EXCEPT !.aggregated[i] =
                  _update_entry_with_sentence(@, sentence, FALSE, None)]

\* the body of the for loop of line 848 for one sentence
fold_sentence(st, sentence, reference_year) ==
    LET matches == iter_dates(sentence.dates, reference_year)
    IN  IF matches # <<>> THEN fold_events(st, sentence, matches)
        ELSE fold_followup(st, sentence)

(***************************************************************************)
(* timeline_generator.py: sorting and emission (lines 927-957).            *)
(***************************************************************************)
\* faulty variant: buckets with the same sort tuple stay in order of
\* appearance, whatever their importance
_timeline_sort_key_by_appearance(entry, appearance_order) ==
    IF entry.sort_key # None
    THEN <<0, entry.sort_key[1], entry.sort_key[2], entry.sort_key[3], entry.sort_key[4],
           appearance_order>>
    ELSE IF entry.date_iso # None
    THEN <<0, entry.date_iso[1], entry.date_iso[2], entry.date_iso[3], 0, appearance_order>>
    ELSE <<1, appearance_order>>

\* faulty variant: the date is left out of the key
_timeline_sort_key_undated(entry, appearance_order) ==
    <<0, -entry.importance, appearance_order>>

_timeline_sort_key(entry, appearance_order) ==
    IF entry.sort_key # None
    THEN <<0, entry.sort_key[1], entry.sort_key[2], entry.sort_key[3], entry.sort_key[4],
           -entry.importance, appearance_order>>
    ELSE IF entry.date_iso # None
    THEN <<0, entry.date_iso[1], entry.date_iso[2], entry.date_iso[3], 0,
           -entry.importance, appearance_order>>
    ELSE <<1, appearance_order>>

\* sorted(aggregated_events.items(), key=...): the entries in key order
sorted_entries_of(aggregated) ==
    LET order == SortSeq([i \in 1..Len(aggregated) |-> i],
                         LAMBDA a, b : TupleLess(_timeline_sort_key(aggregated[a], a - 1),
                                                 _timeline_sort_key(aggregated[b], b - 1)))
    IN  [i \in 1..Len(aggregated) |-> aggregated[order[i]]]

\* faulty variant: the sum of the bonuses is not capped
confidence_score_uncapped(entry) ==
    clamp(300 + 5 * entry.importance, 200, 800)
        + (IF entry.date_iso # None THEN 100 ELSE 0)
        + 50 * (Len(entry.people) + Len(entry.locations))
        + (IF Len(entry.sentences) > 1 THEN 50 ELSE 0)
        + (IF Len(entry.category_counts) > 1 THEN 50 ELSE 0)

\* compute_confidence before the final round(score, 2), in thousandths
confidence_score(entry) ==
    LET base == clamp(300 + 5 * entry.importance, 200, 800)
        iso_bonus == IF entry.date_iso # None THEN 100 ELSE 0
        entity_bonus == Min2(150, 50 * (Len(entry.people) + Len(entry.locations)))
        sentence_bonus == IF Len(entry.sentences) > 1 THEN 50 ELSE 0
        diversity_bonus == IF Len(entry.category_counts) > 1 THEN 50 ELSE 0
    IN  Min2(1000, base + iso_bonus + entity_bonus + sentence_bonus + diversity_bonus)

\* round(score, 2) of a binary float: a score half-way between two
\* hundredths goes to either, as the float happens to lie
is_rounding_tie(entry) == confidence_score(entry) % 10 = 5

compute_confidence(entry, tie_up) ==
    LET score == confidence_score(entry)
    IN  IF score % 10 = 5 THEN (score \div 10) + (IF tie_up THEN 1 ELSE 0)
        ELSE (score + 5) \div 10

\* Counter.most_common(1)[0][0]: the first of the most counted
most_common(counts) ==
    LET i == CHOOSE i \in 1..Len(counts) :
                /\ \A j \in 1..Len(counts) : counts[j][2] <= counts[i][2]
                /\ \A j \in 1..(i - 1) : counts[j][2] < counts[i][2]
    IN  counts[i][1]

Take(s, n) == SubSeq(s, 1, Min2(n, Len(s)))

\* faulty variant: the lists of names are not cut to five
timeline_item_all_names(entry, id, tie_up) ==
    [id |-> id,
     date_text |-> entry.date_text,
     date_iso |-> entry.date_iso,
     title |-> IF entry.title # None THEN entry.title ELSE <<"", entry.date_text>>,
     description |-> entry.sentences,
     people |-> entry.people,
     locations |-> entry.locations,
     category |-> IF entry.category_counts # <<>> THEN most_common(entry.category_counts)
                  ELSE "general",
     importance |-> Max2(0, entry.importance),
     confidence |-> compute_confidence(entry, tie_up)]

\* lines 943-954; the id stands for the fresh uuid4
timeline_item(entry, id, tie_up) ==
    [id |-> id,
     date_text |-> entry.date_text,
     date_iso |-> entry.date_iso,
     title |-> IF entry.title # None THEN entry.title ELSE <<"", entry.date_text>>,
     description |-> entry.sentences,
     people |-> Take(entry.people, 5),
     locations |-> Take(entry.locations, 5),
     category |-> IF entry.category_counts # <<>> THEN most_common(entry.category_counts)
                  ELSE "general",
     importance |-> Max2(0, entry.importance),
     confidence |-> compute_confidence(entry, tie_up)]

\* faulty variant: every entry is emitted
emit_items_untruncated(sorted_entries, max_events, ties) ==
    [k \in 1..Len(sorted_entries) |-> timeline_item(sorted_entries[k], k, ties[k])]

\* lines 932-957: the items of the first max_events sorted entries that
\* have a sentence
emit_items(sorted_entries, max_events, ties) ==
    LET taken == Take(sorted_entries, max_events)
        kept == SelectSeq([i \in 1..Len(taken) |-> i],
                          LAMBDA i : taken[i].sentences # <<>>)
    IN  [k \in 1..Len(kept) |-> timeline_item(taken[kept[k]], k, ties[kept[k]])]

(***************************************************************************)
(* dag.py: relation inference.  Marker phrases are written in Latin        *)
(* letters, scores are hundredths, strengths thousandths.                  *)
(***************************************************************************)
\* the phrases of _MARKERS in description + "\n" + title: the title is cut
\* from a sentence of the description
text_markers(item) ==
    UNION {s.markers : s \in {t \in Sentences : t.text \in Range(item.description)}}

\* one of the two loops of _detect_temporal_markers over the phrases found
RECURSIVE best_marker(_, _, _)
best_marker(best, found, i) ==
    IF i > Len(_MARKERS) THEN best
    ELSE best_marker(IF _MARKERS[i][1] \in found /\ _MARKERS[i][3] > best[2]
                     THEN <<_MARKERS[i][2], _MARKERS[i][3], <<_MARKERS[i][1]>> >>
                     ELSE best,
                     found, i + 1)

\* returns <<relation type, score, phrase or None>>
_detect_temporal_markers(prev_text, cur_text) ==
    best_marker(best_marker(<<"temporal", 0, None>>, cur_text, 1), prev_text, 1)

_infer_relation_type(prev, cur) ==
    _detect_temporal_markers(text_markers(prev), text_markers(cur))

_CATEGORY_AFFINITY ==
    { <<"politics", "economy", 65>>, <<"economy", "politics", 65>>,
      <<"science", "health", 75>>, <<"health", "science", 75>>,
      <<"disaster", "health", 60>>, <<"health", "disaster", 60>>,
      <<"economy", "science", 50>>, <<"science", "economy", 50>>,
      <<"politics", "science", 35>>, <<"science", "politics", 35>> }

_semantic_similarity(prev, cur) ==
    IF prev.category = cur.category
    THEN (IF prev.category = "general" THEN 20 ELSE 80)
    ELSE IF \E a \in _CATEGORY_AFFINITY : a[1] = prev.category /\ a[2] = cur.category
    THEN (CHOOSE a \in _CATEGORY_AFFINITY :
              a[1] = prev.category /\ a[2] = cur.category)[3]
    ELSE 30

\* an ISO date the generator wrote always parses back
_iso_to_date(iso) == iso

_temporal_precision_from_iso(iso) == IF iso = None THEN 2 ELSE 0

\* faulty variant: the difference is taken the other way round
_time_gap_days_reversed(a, b) ==
    IF _iso_to_date(a) # None /\ _iso_to_date(b) # None
    THEN <<toordinal(a) - toordinal(b)>>
    ELSE None

\* None or <<days>>
_time_gap_days(a, b) ==
    IF _iso_to_date(a) # None /\ _iso_to_date(b) # None
    THEN <<toordinal(b) - toordinal(a)>>
    ELSE None

\* math.exp(-days / 365.0) in units of 10^-8, by the power series on
\* [0, 1) and exp(-(k + y)) = exp(-1)^k * exp(-y); every product stays
\* below 2^31
ExpScale == 100000000

\* floor(term * r / d) for term <= ExpScale and r <= d
muldiv(term, r, d) == (term \div d) * r + ((term % d) * r) \div d

RECURSIVE exp_series(_, _, _, _)
exp_series(r, n, term, sum) ==
    IF term = 0 THEN sum
    ELSE LET next == muldiv(term, r, 365 * n)
         IN  exp_series(r, n + 1, next, IF n % 2 = 1 THEN sum - next ELSE sum + next)

\* floor(a * b / ExpScale) up to the last unit
mulscale(a, b) ==
    LET a1 == a \div 10000
        a0 == a % 10000
        b1 == b \div 10000
        b0 == b % 10000
    IN  a1 * b1 + (a1 * b0 + a0 * b1 + (a0 * b0) \div 10000) \div 10000

RECURSIVE exp_neg_days(_)
exp_neg_days(days) ==
    IF days >= 365
    THEN (IF days >= 365 * 25 THEN 0
          ELSE mulscale(exp_series(365, 1, ExpScale, ExpScale), exp_neg_days(days - 365)))
    ELSE exp_series(days, 1, ExpScale, ExpScale)

abs(n) == IF n < 0 THEN -n ELSE n

\* 0.5*wt + 0.3*sc + 0.2*tg rounded to three places: the first two terms
\* are whole thousandths
_relation_strength(prev, cur, marker_score) ==
    LET wt == clamp(marker_score, 0, 100)
        sc == _semantic_similarity(prev, cur)
        gap == _time_gap_days(prev.date_iso, cur.date_iso)
        tg == IF gap # None THEN (2 * exp_neg_days(abs(gap[1])) + 500000) \div 1000000
              ELSE 160
    IN  clamp(5 * wt + 3 * sc + tg, 0, 1000)

\* avg_degree in thousandths
_compute_stats(nodes, edges) ==
    IF nodes = <<>>
    THEN [node_count |-> 0, edge_count |-> 0, avg_degree |-> 0,
          max_path_length |-> 0, cyclic_count |-> 0]
    ELSE [node_count |-> Len(nodes), edge_count |-> Len(edges),
          avg_degree |-> (4000 * Len(edges) + Max2(1, Len(nodes)))
                             \div (2 * Max2(1, Len(nodes))),
          max_path_length |-> 0, cyclic_count |-> 0]

(***************************************************************************)
(* dag.py: build_timeline_dag on the items generate_timeline returned.     *)
(***************************************************************************)
\* lines 222-238
timeline_node(it) ==
    [id |-> it.id, date_text |-> it.date_text, date_iso |-> it.date_iso,
     title |-> it.title, description |-> it.description, people |-> it.people,
     locations |-> it.locations, category |-> it.category,
     importance |-> it.importance, confidence |-> it.confidence,
     node_type |-> "event",
     temporal_precision |-> _temporal_precision_from_iso(it.date_iso),
     is_parent |-> FALSE]

WINDOW == 3

\* the (i, j) the two loops of lines 242-243 visit, in order
window_pairs(n) ==
    LET all == [k \in 1..(n * n) |-> <<((k - 1) \div n) + 1, ((k - 1) % n) + 1>>]
    IN  SelectSeq(all, LAMBDA p : p[1] < p[2] /\ p[2] <= p[1] + WINDOW)

\* lines 244-252: whether the pair gets an edge
edge_accepted(prev, cur, relation_threshold) ==
    LET d1 == _iso_to_date(prev.date_iso)
        d2 == _iso_to_date(cur.date_iso)
    IN  /\ ~(d1 # None /\ d2 # None /\ TupleLess(d2, d1))
        /\ _relation_strength(prev, cur, _infer_relation_type(prev, cur)[2])
               >= relation_threshold

\* lines 253-267
timeline_edge(prev, cur) ==
    LET rel == _infer_relation_type(prev, cur)
    IN  [source_id |-> prev.id, target_id |-> cur.id,
         relation_type |-> rel[1],
         relation_strength |-> _relation_strength(prev, cur, rel[2]),
         time_gap_days |-> _time_gap_days(prev.date_iso, cur.date_iso),
         reasoning |-> IF rel[1] = "causal" /\ rel[3] # None
                       THEN <<"marker", rel[3][1]>> ELSE <<"order">>,
         evidence_sentences |-> <<cur.title>>]

\* lines 241-267
candidate_edges(items, relation_threshold) ==
    LET pairs == SelectSeq(window_pairs(Len(items)),
                           LAMBDA p : edge_accepted(items[p[1]], items[p[2]],
                                                    relation_threshold))
    IN  [k \in 1..Len(pairs) |-> timeline_edge(items[pairs[k][1]], items[pairs[k][2]])]

\* faulty variant: every pair of the window is linked both ways and the
\* cycles are left in
build_timeline_dag_two_way(items, relation_threshold) ==
    LET nodes == [i \in 1..Len(items) |-> timeline_node(items[i])]
        pairs == window_pairs(Len(items))
        edges == [k \in 1..(2 * Len(pairs)) |->
                     IF k <= Len(pairs)
                     THEN timeline_edge(items[pairs[k][1]], items[pairs[k][2]])
                     ELSE timeline_edge(items[pairs[k - Len(pairs)][2]],
                                        items[pairs[k - Len(pairs)][1]])]
    IN  [nodes |-> nodes, edges |-> edges, stats |-> _compute_stats(nodes, edges)]

build_timeline_dag(items, relation_threshold) ==
    LET nodes == [i \in 1..Len(items) |-> timeline_node(items[i])]
        edges == reduce_transitive_edges(
                     detect_and_resolve_cycles(candidate_edges(items, relation_threshold)))
    IN  [nodes |-> nodes, edges |-> edges, stats |-> _compute_stats(nodes, edges)]

(***************************************************************************)
(* Spec: one call of build_timeline_dag, which calls generate_timeline.    *)
(* The sentences split_sentences yields are folded one by one; then the    *)
(* entries are sorted and emitted; then the DAG is built.                  *)
(*   pc  "scan"    in the sentence loop of generate_timeline               *)
(*       "raised"  an exception left generate_timeline                     *)
(*       "items"   generate_timeline returned                              *)
(*       "dag"     build_timeline_dag returned                             *)
(***************************************************************************)
MaxSentences == 2

ReferenceYears == {2026, 2027}

MaxEventsChoices == {0, 1, 2, 150}

\* relation_threshold, thousandths
Thresholds == {0, 500, 1000}

InitTimeline ==
    /\ g = NoCall
    /\ txt = NoCall
    /\ \E y \in ReferenceYears :
          tl = [op |-> "timeline", pc |-> "scan", reference_year |-> y, fed |-> <<>>,
                st |-> [aggregated |-> <<>>, seen_pairs |-> {}, last_event_key |-> None],
                max_events |-> None, ties |-> <<>>, sorted_entries |-> <<>>,
                items |-> <<>>, relation_threshold |-> None, dag |-> None]

\* one turn of the loop of line 848
FeedSentence ==
    /\ tl.op = "timeline" /\ tl.pc = "scan"
    /\ Len(tl.fed) < MaxSentences
    /\ \E s \in Sentences :
          IF iter_dates_raises(s.dates)
          THEN tl' = [tl EXCEPT !.pc = "raised", !.fed = Append(@, s.text)]
          ELSE tl' = [tl EXCEPT !.fed = Append(@, s.text),
                                !.st = fold_sentence(@, s, tl.reference_year)]
    /\ UNCHANGED <<g, txt>>

\* lines 927-957: the loop is over, the items are returned
Generate ==
    /\ tl.op = "timeline" /\ tl.pc = "scan"
    /\ \E m \in MaxEventsChoices :
          LET sorted == sorted_entries_of(tl.st.aggregated)
          IN  \E ties \in [1..Len(sorted) -> BOOLEAN] :
                 /\ \A i \in 1..Len(sorted) : ties[i] => is_rounding_tie(sorted[i])
                 /\ tl' = [tl EXCEPT !.pc = "items", !.max_events = <<m>>,
                                     !.ties = ties, !.sorted_entries = sorted,
                                     !.items = emit_items(sorted, m, ties)]
    /\ UNCHANGED <<g, txt>>

\* lines 220-282
BuildDag ==
    /\ tl.op = "timeline" /\ tl.pc = "items"
    /\ \E t \in Thresholds :
          tl' = [tl EXCEPT !.pc = "dag", !.relation_threshold = <<t>>,
                           !.dag = <<build_timeline_dag(tl.items, t)>>]
    /\ UNCHANGED <<g, txt>>

Init == InitTimeline

Next == FeedSentence \/ Generate \/ BuildDag

Spec == Init /\ [][Next]_vars

(***************************************************************************)
(* What the properties are stated with (not code).                         *)
(***************************************************************************)
Returned == tl.op = "timeline" /\ tl.pc \in {"items", "dag"}

SentenceOf(text) == CHOOSE s \in Sentences : s.text = text

\* the date keys of the text: the keys of the date matches of its sentences
\* that have meaningful content
DateKeysOf(text, reference_year) ==
    IF SentenceOf(text).meaningful
    THEN {event_key(e) : e \in Range(iter_dates(SentenceOf(text).dates, reference_year))}
    ELSE {}

DateKeys == UNION {DateKeysOf(t, tl.reference_year) : t \in Range(tl.fed)}

\* the sentences of the text that have a date match with this key and
\* meaningful content
DatedSentencesOf(key) ==
    {t \in Range(tl.fed) :
        /\ SentenceOf(t).meaningful
        /\ \E e \in Range(iter_dates(SentenceOf(t).dates, tl.reference_year)) :
              event_key(e) = key}

ItemKey(item) == event_key([date_iso |-> item.date_iso, date_text |-> item.date_text])

FirstIndex(seq, x) == CHOOSE i \in 1..Len(seq) : seq[i] = x /\ \A j \in 1..(i - 1) : seq[j] # x

IsPrefix(s, t) == Len(s) <= Len(t) /\ \A i \in 1..Len(s) : s[i] = t[i]

WithoutId(item) == [item EXCEPT !.id = 0]

Position(seq, x) == CHOOSE i \in 1..Len(seq) : seq[i] = x

\* the place in the output of the last predecessor of a node: the node
\* becomes ready when that predecessor is emitted (0: ready from the start)
ReadyAt(n, out, E) ==
    LET preds == {p[1] : p \in {q \in E : q[2] = n}}
    IN  IF preds = {} THEN 0
        ELSE CHOOSE k \in 1..Len(out) :
                 out[k] \in preds /\ \A j \in (k + 1)..Len(out) : out[j] \notin preds

(***************************************************************************)
(* Properties.                                                             *)
(***************************************************************************)
\* C1: for every text and every relation_threshold, the edges of the DAG
\* build_timeline_dag returns contain no directed cycle.
C1_DagAcyclic ==
    (tl.op = "timeline" /\ tl.pc = "dag") => Acyclic(EdgePairs(tl.dag[1].edges))

\* a DAG of three events with two edges left, built with a threshold above 0
C1_Witness ==
    /\ tl.op = "timeline" /\ tl.pc = "dag"
    /\ Len(tl.dag[1].nodes) = 3
    /\ Len(tl.dag[1].edges) = 2
    /\ tl.relation_threshold[1] > 0

\* C2: generate_timeline never raises, whatever the text: a date out of
\* range (an in-era year past the largest calendar year included) gives a
\* null date_iso or a skipped match, and a text with no sentence that has
\* both a date match and meaningful content gives the empty list.
C2_NeverRaises ==
    /\ ~(tl.op = "timeline" /\ tl.pc = "raised")
    /\ (Returned /\ DateKeys = {}) => tl.items = <<>>

\* C3: in the list generate_timeline returns, of two items that both have
\* a date_iso the earlier one's (year, month, day) is not after the later
\* one's.
C3_DatedItemsOrdered ==
    Returned =>
        \A i, j \in 1..Len(tl.items) :
            (i < j /\ tl.items[i].date_iso # None /\ tl.items[j].date_iso # None)
                => ~TupleLess(tl.items[j].date_iso, tl.items[i].date_iso)

\* two dated items in date order, the later date met first in the text
C3_Witness ==
    /\ Returned
    /\ Len(tl.items) >= 2
    /\ tl.items[1].date_iso # None /\ tl.items[2].date_iso # None
    /\ TupleLess(tl.items[1].date_iso, tl.items[2].date_iso)
    /\ tl.st.aggregated[1].date_iso = tl.items[2].date_iso

\* C4: every item generate_timeline returns has importance in [0, 1] and
\* confidence in [0, 1] (hundredths: 0..100), whatever was folded into its
\* bucket.
C4_ScoresInUnitInterval ==
    Returned =>
        \A i \in 1..Len(tl.items) :
            /\ 0 <= tl.items[i].importance /\ tl.items[i].importance <= 100
            /\ 0 <= tl.items[i].confidence /\ tl.items[i].confidence <= 100

\* an item of two sentences whose bonuses add up to more than 1
C4_Witness ==
    /\ Returned
    /\ \E i \in 1..Len(tl.items) :
          /\ tl.items[i].importance = 100
          /\ tl.items[i].confidence = 100
          /\ Len(tl.items[i].description) = 2
          /\ Len(tl.items[i].people) + Len(tl.items[i].locations) >= 3

\* C5: generate_timeline gives one item per date key (the ISO date when the
\* date resolves, else the raw date text): no two items have the same key
\* or the same non-null date_iso, every key of the text has its item unless
\* max_events cut the list, and the description of an item holds every
\* dated sentence of its key, no sentence twice, the dated sentences in the
\* order they first appear in the text, the rest being follow-up sentences
\* placed after the dated sentence they follow.
C5_OneItemPerDateKey ==
    Returned =>
        /\ \A i, j \in 1..Len(tl.items) :
              i # j => /\ ItemKey(tl.items[i]) # ItemKey(tl.items[j])
                       /\ (tl.items[i].date_iso # None
                              => tl.items[i].date_iso # tl.items[j].date_iso)
        /\ {ItemKey(tl.items[i]) : i \in 1..Len(tl.items)} \subseteq DateKeys
        /\ tl.max_events[1] >= Cardinality(DateKeys)
              => {ItemKey(tl.items[i]) : i \in 1..Len(tl.items)} = DateKeys
        /\ \A i \in 1..Len(tl.items) :
              LET d == tl.items[i].description
                  dated == DatedSentencesOf(ItemKey(tl.items[i]))
              IN  /\ \A a, b \in 1..Len(d) : a # b => d[a] # d[b]
                  /\ dated \subseteq Range(d)
                  /\ \A a \in 1..Len(d) :
                        d[a] \notin dated => (a > 1 /\ SentenceOf(d[a]).followup)
                  /\ \A a, b \in 1..Len(d) :
                        (d[a] \in dated /\ d[b] \in dated
                            /\ FirstIndex(tl.fed, d[a]) < FirstIndex(tl.fed, d[b])) => a < b

\* two different sentences of the same day, one of them naming the day
\* twice, merged into the only item
C5_Witness ==
    /\ Returned
    /\ Len(tl.items) = 1
    /\ tl.items[1].description = <<"same-day-twice", "greg-2020-05-01-rich">>
    /\ tl.items[1].date_iso = <<2020, 5, 1>>

\* C6: normalise_input_text is idempotent: normalising a normalised text
\* changes nothing, also for a text with a middle dot inside a line, with
\* an escaped HTML entity or with nested citation markers.
C6_NormaliseIdempotent ==
    txt.op = "renormalised" => txt.again = txt.out

\* C7: on an acyclic edge list reduce_transitive_edges drops the edge
\* (u, v) exactly when v is reachable from u without the direct edge
\* (u, v); so with A->B, B->C and A->C in the list, A->C is not returned.
C7_TransitiveReduction ==
    (g.op = "reduced" /\ Acyclic(EdgePairs(g.edges))) =>
        /\ g.out = SelectSeq(g.edges,
                      LAMBDA e : ~Reaches(e.source_id, e.target_id,
                                          EdgePairs(g.edges) \ {EdgeKey(e)}))
        /\ \A a, b, c \in NodeIds :
              ({<<a, b>>, <<b, c>>, <<a, c>>} \subseteq EdgePairs(g.edges)
                  /\ a # b /\ b # c)
                  => <<a, c>> \notin EdgePairs(g.out)

\* A->B, B->C and A->C went in, A->B and B->C came out
C7_Witness ==
    /\ g.op = "reduced"
    /\ \E a, b, c \in NodeIds :
          /\ a # b /\ b # c /\ a # c
          /\ EdgePairs(g.edges) = {<<a, b>>, <<b, c>>, <<a, c>>}
          /\ EdgePairs(g.out) = {<<a, b>>, <<b, c>>}

\* C8, as stated: with a direct edge A->B in the list, find_paths(A, B,
\* edges) includes the path [A, B], for every max_depth and also when A
\* and B are the same node.
C8_DirectPathAlways ==
    (g.op = "paths" /\ <<g.start, g.end>> \in EdgePairs(g.edges))
        => <<g.start, g.end>> \in Range(g.out)

\* C8, amended: with a direct edge A->B, A and B different and max_depth at
\* least 1, find_paths includes [A, B]; with max_depth 0 and A, B different
\* it returns no path; when A and B are the same node it returns the path
\* [A] alone.
C8_DirectPathWithinDepth ==
    g.op = "paths" =>
        /\ (<<g.start, g.end>> \in EdgePairs(g.edges) /\ g.start # g.end /\ g.max_depth >= 1)
              => <<g.start, g.end>> \in Range(g.out)
        /\ (g.start # g.end /\ g.max_depth = 0) => g.out = <<>>
        /\ g.start = g.end => g.out = << <<g.start>> >>

\* a direct edge and a two-step path between different nodes, both found
C8_Witness ==
    /\ g.op = "paths"
    /\ g.start # g.end
    /\ g.max_depth >= 1
    /\ <<g.start, g.end>> \in Range(g.out)
    /\ Len(g.out) = 2

\* C9: for nodes and an acyclic edge list over them, topological_sort
\* returns every node once, the source of every edge before its target,
\* and nodes that become ready at the same time in input order.
C9_StableTopologicalOrder ==
    (g.op = "sorted" /\ Acyclic(EdgePairs(g.edges))) =>
        /\ Len(g.out) = Len(g.nodes)
        /\ Range(g.out) = Range(g.nodes)
        /\ \A p \in EdgePairs(g.edges) : Position(g.out, p[1]) < Position(g.out, p[2])
        /\ \A a, b \in Range(g.nodes) :
              (Position(g.nodes, a) < Position(g.nodes, b)
                  /\ ReadyAt(a, g.out, EdgePairs(g.edges))
                         = ReadyAt(b, g.out, EdgePairs(g.edges)))
                  => Position(g.out, a) < Position(g.out, b)

\* C10: generate_timeline returns min(max_events, number of date buckets)
\* items, the items of the first max_events entries of the sorted sequence;
\* so the result for a smaller max_events is, ids apart, a prefix of it.
C10_TruncatedToMaxEvents ==
    Returned =>
        /\ Len(tl.sorted_entries) = Cardinality(DateKeys)
        /\ Len(tl.items) = Min2(tl.max_events[1], Cardinality(DateKeys))
        /\ Len(tl.items) <= tl.max_events[1]
        /\ \A i \in 1..Len(tl.items) :
              /\ tl.items[i].description = tl.sorted_entries[i].sentences
              /\ ItemKey(tl.items[i]) = tl.sorted_entries[i].key
        /\ \A m \in MaxEventsChoices :
              m <= tl.max_events[1] =>
                 LET fewer == emit_items(tl.sorted_entries, m, tl.ties)
                 IN  /\ Len(fewer) = Min2(m, Len(tl.items))
                     /\ IsPrefix([i \in 1..Len(fewer) |-> WithoutId(fewer[i])],
                                 [i \in 1..Len(tl.items) |-> WithoutId(tl.items[i])])

\* three buckets cut to two items
C10_Witness ==
    /\ Returned
    /\ Cardinality(DateKeys) = 3
    /\ tl.max_events[1] = 2
    /\ Len(tl.items) = 2

NodeOfId(dag, id) == CHOOSE n \in Range(dag.nodes) : n.id = id

DagBuilt == tl.op = "timeline" /\ tl.pc = "dag"

\* C11: in a DAG build_timeline_dag returns, an edge whose source and
\* target both have a date_iso has source date <= target date, and its
\* time_gap_days is the number of days between them, not negative.
C11_EdgesForwardInTime ==
    DagBuilt =>
        \A e \in Range(tl.dag[1].edges) :
            LET s == NodeOfId(tl.dag[1], e.source_id)
                t == NodeOfId(tl.dag[1], e.target_id)
            IN  IF s.date_iso # None /\ t.date_iso # None
                THEN /\ ~TupleLess(t.date_iso, s.date_iso)
                     /\ e.time_gap_days # None
                     /\ e.time_gap_days[1] >= 0
                     /\ e.time_gap_days[1] = toordinal(t.date_iso) - toordinal(s.date_iso)
                ELSE e.time_gap_days = None

\* an edge between two dated events more than a year apart
C11_Witness ==
    /\ DagBuilt
    /\ \E e \in Range(tl.dag[1].edges) :
          /\ NodeOfId(tl.dag[1], e.source_id).date_iso # None
          /\ NodeOfId(tl.dag[1], e.target_id).date_iso # None
          /\ e.time_gap_days[1] > 365

\* C13: in a DAG build_timeline_dag returns, a node has is_parent = TRUE
\* exactly when an edge of the final edge list has it as its source; so
\* some node is a parent whenever there is an edge, and the last node is
\* not.
C13_ParentHasOutgoingEdge ==
    DagBuilt =>
        /\ \A n \in Range(tl.dag[1].nodes) :
              n.is_parent <=> (\E e \in Range(tl.dag[1].edges) : e.source_id = n.id)
        /\ tl.dag[1].edges # <<>> => \E n \in Range(tl.dag[1].nodes) : n.is_parent
        /\ tl.dag[1].nodes # <<>> => ~Last(tl.dag[1].nodes).is_parent

\* the number of edges of the longest path of an acyclic set of pairs
RECURSIVE LongestFrom(_, _)
LongestFrom(u, E) ==
    LET succ == {p[2] : p \in {q \in E : q[1] = u}}
    IN  IF succ = {} THEN 0
        ELSE 1 + (CHOOSE m \in {LongestFrom(v, E) : v \in succ} :
                      \A k \in {LongestFrom(v, E) : v \in succ} : k <= m)

LongestPath(nodes, E) ==
    IF nodes = {} THEN 0
    ELSE CHOOSE m \in {LongestFrom(u, E) : u \in nodes} :
             \A k \in {LongestFrom(u, E) : u \in nodes} : k <= m

\* C14: the stats of a DAG build_timeline_dag returns describe its final
\* graph: node_count is the number of nodes, edge_count the number of
\* edges left after cycle resolution and transitive reduction, and
\* max_path_length the length of the longest path (at least 1 when there
\* is an edge).
C14_StatsDescribeGraph ==
    DagBuilt =>
        /\ tl.dag[1].stats.node_count = Len(tl.dag[1].nodes)
        /\ tl.dag[1].stats.edge_count = Len(tl.dag[1].edges)
        /\ tl.dag[1].stats.max_path_length
              = LongestPath({n.id : n \in Range(tl.dag[1].nodes)}, EdgePairs(tl.dag[1].edges))

(***************************************************************************)
(* timeline_generator.py: classify_people_locations.  A sentence is a      *)
(* sequence of glyphs: "A" and "B" are kanji, "shi" a kanji that is a      *)
(* location suffix (U+5E02), "uji" a kanji that is a person suffix         *)
(* (U+6C0F), "ka" a katakana, "no" a hiragana and "," a punctuation mark   *)
(* (U+3001).  The tables of text_features.py are given by what the         *)
(* specification says of them: the location suffixes are the              *)
(* administrative-unit suffixes LOCATION_COMPOUND_PATTERN also lists, the  *)
(* person suffixes are honorifics, the gazetteer holds place names.        *)
(***************************************************************************)
Glyphs == {"A", "B", "shi", "uji", "ka", "no", ","}

KanjiGlyphs == {"A", "B", "shi", "uji"}

KatakanaGlyphs == {"ka"}

LOCATION_KEYWORDS == << <<"A", "A">> >>

LOCATION_SUFFIXES == << <<"shi">> >>

PEOPLE_SUFFIXES == << <<"uji">> >>

\* the suffixes LOCATION_COMPOUND_PATTERN spells out
CompoundSuffixGlyphs == {"shi"}

TOKEN_STRIP_CHARS == {","}

_strip_token(token) == RStrip(LStrip(token, TOKEN_STRIP_CHARS), TOKEN_STRIP_CHARS)

ends_with_any(token, suffixes) == \E i \in 1..Len(suffixes) : EndsWith(token, suffixes[i])

\* the token without the first suffix of the list it ends with
remove_suffix(token, suffixes) ==
    IF ends_with_any(token, suffixes)
    THEN LET i == CHOOSE i \in 1..Len(suffixes) :
                     /\ EndsWith(token, suffixes[i])
                     /\ \A j \in 1..(i - 1) : ~EndsWith(token, suffixes[j])
         IN  SubSeq(token, 1, Len(token) - Len(suffixes[i]))
    ELSE token

_remove_person_suffix(token) == remove_suffix(token, PEOPLE_SUFFIXES)

_remove_location_suffix(token) == remove_suffix(token, LOCATION_SUFFIXES)

\* TOKEN_PATTERN.findall: the maximal runs of word characters
RECURSIVE extract_tokens_from(_, _)
extract_tokens_from(s, cur) ==
    IF s = <<>> THEN (IF cur = <<>> THEN <<>> ELSE <<cur>>)
    ELSE IF Head(s) \in TOKEN_STRIP_CHARS
    THEN (IF cur = <<>> THEN <<>> ELSE <<cur>>) \o extract_tokens_from(Tail(s), <<>>)
    ELSE extract_tokens_from(Tail(s), Append(cur, Head(s)))

extract_tokens(sentence) == extract_tokens_from(sentence, <<>>)

KANJI_NAME_PATTERN(token) ==
    Len(token) >= 2 /\ Len(token) <= 4 /\ \A i \in 1..Len(token) : token[i] \in KanjiGlyphs

KATAKANA_NAME_PATTERN(token) ==
    Len(token) >= 1 /\ \A i \in 1..Len(token) : token[i] \in KatakanaGlyphs

\* cs is [people_order, locations_order, person_bases, location_bases]
add_person(cs, name) ==
    LET cleaned == _strip_token(name)
        stripped == _strip_token(_remove_person_suffix(cleaned))
        base == IF stripped # <<>> THEN stripped ELSE cleaned
    IN  IF cleaned = <<>> THEN cs
        ELSE IF base \in cs.location_bases /\ ~ends_with_any(cleaned, PEOPLE_SUFFIXES) THEN cs
        ELSE IF base \notin cs.person_bases
        THEN [cs EXCEPT !.person_bases = @ \cup {base},
                        !.people_order = setdefault_all(@, <<cleaned>>)]
        ELSE cs

add_location(cs, name) ==
    LET cleaned == _strip_token(name)
        stripped == _strip_token(_remove_location_suffix(cleaned))
        base == IF stripped # <<>> THEN stripped ELSE cleaned
    IN  IF cleaned = <<>> THEN cs
        ELSE IF base \in cs.person_bases /\ ~ends_with_any(cleaned, LOCATION_SUFFIXES) THEN cs
        ELSE IF base \notin cs.location_bases
        THEN [cs EXCEPT !.location_bases = @ \cup {base},
                        !.locations_order = setdefault_all(@, <<cleaned>>)]
        ELSE cs

\* lines 414-448: one token (its glyphs never hold the middle dot, so the
\* branch of the dot-joined compounds is never taken)
classify_token(cs, token) ==
    LET cleaned == _strip_token(token)
        base_person == _remove_person_suffix(cleaned)
    IN  IF cleaned = <<>> THEN cs
        ELSE IF cleaned \in Range(LOCATION_KEYWORDS) THEN add_location(cs, cleaned)
        ELSE IF ends_with_any(cleaned, LOCATION_SUFFIXES) THEN add_location(cs, cleaned)
        ELSE IF base_person # cleaned
        THEN (IF /\ base_person # <<>>
                 /\ base_person \notin Range(LOCATION_KEYWORDS)
                 /\ ~ends_with_any(base_person, LOCATION_SUFFIXES)
              THEN add_person(cs, cleaned) ELSE cs)
        ELSE IF KANJI_NAME_PATTERN(cleaned) /\ ~ends_with_any(cleaned, LOCATION_SUFFIXES)
        THEN (IF cleaned \notin Range(LOCATION_KEYWORDS) THEN add_person(cs, cleaned) ELSE cs)
        ELSE IF KATAKANA_NAME_PATTERN(cleaned) /\ Len(cleaned) >= 3
        THEN add_person(cs, cleaned)
        ELSE cs

\* LOCATION_COMPOUND_PATTERN.finditer: from the left, one to four kanji (as
\* many as possible) followed by a suffix, the matches not overlapping
RECURSIVE compound_matches(_, _)
compound_matches(s, i) ==
    IF i > Len(s) THEN <<>>
    ELSE LET fits(k) == /\ i + k <= Len(s)
                        /\ \A j \in i..(i + k - 1) : s[j] \in KanjiGlyphs
                        /\ s[i + k] \in CompoundSuffixGlyphs
         IN  IF \E k \in 1..4 : fits(k)
             THEN LET k == CHOOSE k \in 1..4 : fits(k) /\ \A m \in (k + 1)..4 : ~fits(m)
                  IN  <<SubSeq(s, i, i + k)>> \o compound_matches(s, i + k + 1)
             ELSE compound_matches(s, i + 1)

Contains(s, sub) ==
    \E i \in 1..(Len(s) - Len(sub) + 1) : SubSeq(s, i, i + Len(sub) - 1) = sub

RECURSIVE fold_tokens(_, _), fold_locations(_, _)
fold_tokens(cs, tokens) ==
    IF tokens = <<>> THEN cs ELSE fold_tokens(classify_token(cs, Head(tokens)), Tail(tokens))

fold_locations(cs, names) ==
    IF names = <<>> THEN cs ELSE fold_locations(add_location(cs, Head(names)), Tail(names))

\* lines 460-471: which list drops a name found in both
overlap_drops_location(name) ==
    \/ ends_with_any(name, PEOPLE_SUFFIXES)
    \/ (~ends_with_any(name, LOCATION_SUFFIXES) /\ Len(name) > 2)

classify_people_locations(sentence, tokens) ==
    LET cs0 == [people_order |-> <<>>, locations_order |-> <<>>,
                person_bases |-> {}, location_bases |-> {}]
        cs1 == fold_tokens(cs0, tokens)
        cs2 == fold_locations(cs1, compound_matches(sentence, 1))
        cs3 == fold_locations(cs2, SelectSeq(LOCATION_KEYWORDS,
                                             LAMBDA k : Contains(sentence, k)))
        overlap == Range(cs3.people_order) \cap Range(cs3.locations_order)
        people == SelectSeq(cs3.people_order,
                      LAMBDA n : ~(n \in overlap /\ ~overlap_drops_location(n)))
        locations == SelectSeq(cs3.locations_order,
                      LAMBDA n : ~(n \in overlap /\ overlap_drops_location(n)))
    IN  [people |-> Take(people, 5), locations |-> Take(locations, 5)]

(***************************************************************************)
(* The entity lists of one bucket: sentences of glyphs carrying the same   *)
(* date are classified one by one and folded by the loop of                *)
(* generate_timeline, then the items are emitted.                          *)
(***************************************************************************)
MaxEntityLen == 2

\* how many sentences a text of this kind has
EntitySentenceCounts == {1, 2}

\* longer sentences, each naming three people and a location
LongEntitySentences ==
    { <<"A", "B", ",", "B", "A", ",", "B", "uji", ",", "B", "shi">>,
      <<"B", "B", ",", "A", "uji", ",", "ka", "ka", "ka", ",", "A", "shi">>,
      <<"A", "B", "no", "A", "A", "no", "A", "shi", "uji">> }

EntitySentences ==
    {s \in SeqsUpTo(Glyphs, MaxEntityLen) : s # <<>>} \cup LongEntitySentences

\* lines 849-855, 878-881: the sentence as the loop reads it
entity_sentence(glyphs) ==
    LET c == classify_people_locations(glyphs, extract_tokens(glyphs))
    IN  Sentence(glyphs, <<Greg(2020, 5, 1)>>, TRUE, FALSE, FALSE,
                 [length |-> Len(glyphs), emphasis |-> 0, people |-> c.people,
                  locations |-> c.locations, category |-> "general", markers |-> {}])

InitEntities ==
    /\ g = NoCall
    /\ txt = NoCall
    /\ tl = [op |-> "entities", pc |-> "scan", fed |-> 0,
             st |-> [aggregated |-> <<>>, seen_pairs |-> {}, last_event_key |-> None],
             items |-> <<>>]

EFeedSentence ==
    /\ tl.op = "entities" /\ tl.pc = "scan"
    /\ tl.fed + 1 \in EntitySentenceCounts
    /\ \E s \in EntitySentences :
          tl' = [tl EXCEPT !.fed = @ + 1,
                           !.st = fold_sentence(@, entity_sentence(s), 2026)]
    /\ UNCHANGED <<g, txt>>

EGenerate ==
    /\ tl.op = "entities" /\ tl.pc = "scan"
    /\ LET sorted == sorted_entries_of(tl.st.aggregated)
       IN  tl' = [tl EXCEPT !.pc = "items",
                            !.items = emit_items(sorted, 150, [i \in 1..Len(sorted) |-> FALSE])]
    /\ UNCHANGED <<g, txt>>

NextEntities == EFeedSentence \/ EGenerate

SpecEntities == InitEntities /\ [][NextEntities]_vars

NoDuplicates(s) == \A i, j \in 1..Len(s) : s[i] = s[j] => i = j

\* C12: every item names at most five distinct people and at most five
\* distinct locations, and no name is in both lists, also when the lists
\* were merged from several sentences classified one by one
C12_EntityListsDisjoint ==
    tl.op = "entities" /\ tl.pc = "items" =>
        \A i \in 1..Len(tl.items) :
            /\ Len(tl.items[i].people) <= 5 /\ NoDuplicates(tl.items[i].people)
            /\ Len(tl.items[i].locations) <= 5 /\ NoDuplicates(tl.items[i].locations)
            /\ Range(tl.items[i].people) \cap Range(tl.items[i].locations) = {}

\* an item merged from two sentences that name six people and two
\* locations between them
C12_Witness ==
    /\ tl.op = "entities" /\ tl.pc = "items" /\ tl.fed = 2
    /\ Len(tl.items) = 1
    /\ Len(tl.st.aggregated[1].people) > 5
    /\ Len(tl.items[1].people) = 5
    /\ Len(tl.items[1].locations) = 2

\* the state of the loop of generate_timeline after the sentences of the
\* text, were it run in the year y
RECURSIVE ScanOn(_, _, _)
ScanOn(st, texts, y) ==
    IF texts = <<>> THEN st
    ELSE ScanOn(fold_sentence(st, SentenceOf(Head(texts)), y), Tail(texts), y)

\* what build_timeline_dag returns for the text of this run, with the same
\* max_events and relation_threshold, were it invoked in the year y
DagOn(y) ==
    LET st == ScanOn([aggregated |-> <<>>, seen_pairs |-> {}, last_event_key |-> None],
                     tl.fed, y)
        sorted == sorted_entries_of(st.aggregated)
        ties == [i \in 1..Len(sorted) |-> i \in DOMAIN tl.ties /\ tl.ties[i]]
    IN  build_timeline_dag(emit_items(sorted, tl.max_events[1], ties),
                           tl.relation_threshold[1])

\* C15: build_timeline_dag returns the same nodes and edges (ids stand for
\* positions here) for the same text, threshold and max_events whenever it
\* is invoked: the result does not depend on the current date
C15_SameDagWhenever ==
    DagBuilt => \A y \in ReferenceYears : DagOn(y) = tl.dag[1]

HasRelativeYear(texts) ==
    \E i \in 1..Len(texts) : \E m \in Range(SentenceOf(texts[i]).dates) : m.kind = "rel"

\* C15 (amended): invocations on the same text with the same threshold and
\* max_events return the same nodes and edges when they run in the same
\* year, and whenever they run if the text has no "N years ago" expression
C15_SameDagUnlessRelative ==
    DagBuilt =>
        /\ DagOn(tl.reference_year) = tl.dag[1]
        /\ ~HasRelativeYear(tl.fed) => \A y \in ReferenceYears : DagOn(y) = tl.dag[1]

\* a DAG with an edge, built in the later year from a text without a
\* relative expression
C15_Witness ==
    /\ DagBuilt /\ ~HasRelativeYear(tl.fed)
    /\ tl.reference_year = 2027
    /\ tl.dag[1].edges # <<>>

(***************************************************************************)
(* Numerals.  A numeral is a sequence of glyphs: "0".."9" the ASCII        *)
(* digits, "F0".."F9" the full-width digits, "K0".."K9" the kanji digits   *)
(* (U+3007 for zero) and "KR" the other kanji zero (U+96F6), "ju",         *)
(* "hyaku", "sen" the small units, "man", "oku", "cho" the large units,    *)
(* "gan" the first-year glyph (U+5143); " " a white-space character, ","  *)
(* a comma, "_" the underscore; "sup2" the superscript two (U+00B2), a     *)
(* character str.isdigit accepts and int rejects; "x" any other character. *)
(***************************************************************************)
AsciiDigit == [d \in 0..9 |-> CASE d = 0 -> "0" [] d = 1 -> "1" [] d = 2 -> "2" [] d = 3 -> "3"
                                [] d = 4 -> "4" [] d = 5 -> "5" [] d = 6 -> "6" [] d = 7 -> "7"
                                [] d = 8 -> "8" [] d = 9 -> "9"]

FullwidthDigit == [d \in 0..9 |-> CASE d = 0 -> "F0" [] d = 1 -> "F1" [] d = 2 -> "F2"
                                    [] d = 3 -> "F3" [] d = 4 -> "F4" [] d = 5 -> "F5"
                                    [] d = 6 -> "F6" [] d = 7 -> "F7" [] d = 8 -> "F8"
                                    [] d = 9 -> "F9"]

KanjiDigit == [d \in 0..9 |-> CASE d = 0 -> "K0" [] d = 1 -> "K1" [] d = 2 -> "K2"
                                [] d = 3 -> "K3" [] d = 4 -> "K4" [] d = 5 -> "K5"
                                [] d = 6 -> "K6" [] d = 7 -> "K7" [] d = 8 -> "K8"
                                [] d = 9 -> "K9"]

IsAsciiDigit(ch) == \E d \in 0..9 : AsciiDigit[d] = ch

AsciiValue(ch) == CHOOSE d \in 0..9 : AsciiDigit[d] = ch

\* str.translate(FULLWIDTH_DIGIT_PATTERN) / _normalise_digits
translate_fullwidth(text) ==
    [i \in 1..Len(text) |->
        IF \E d \in 0..9 : FullwidthDigit[d] = text[i]
        THEN AsciiDigit[CHOOSE d \in 0..9 : FullwidthDigit[d] = text[i]]
        ELSE text[i]]

KANJI_DIGIT_VALUES ==
    [ch \in {KanjiDigit[d] : d \in 0..9} \cup {"KR"} |->
        IF ch = "KR" THEN 0 ELSE CHOOSE d \in 0..9 : KanjiDigit[d] = ch]

KANJI_SMALL_UNITS == [ch \in {"ju", "hyaku", "sen"} |->
                         CASE ch = "ju" -> 10 [] ch = "hyaku" -> 100 [] ch = "sen" -> 1000]

\* what re.sub takes out at line 200 of timeline_generator.py
NumeralSeparators == {" ", ",", "_"}

\* characters with str.isdigit() true that int() does not read
NonDecimalDigits == {"sup2"}

\* the call raises ValueError (int(ch), line 223 of timeline_generator.py, line 72 of
\* japanese_calendar.py); no value the converters return is negative
ValueError == <<-1>>

\* int() of a string of decimal digits given by their values
RECURSIVE int_of_digits(_, _)
int_of_digits(values, acc) ==
    IF values = <<>> THEN acc ELSE int_of_digits(Tail(values), 10 * acc + Head(values))

\* japanese_calendar.py lines 63-85: the loop over the characters; the
\* result is None or <<n>>
RECURSIVE calendar_kanji_loop(_, _, _)
calendar_kanji_loop(text, section, current_digit) ==
    IF text = <<>>
    THEN LET result == section + (IF current_digit # None THEN current_digit[1] ELSE 0)
         IN  IF result # 0 THEN <<result>> ELSE None
    ELSE LET ch == Head(text) IN
         IF ch \in DOMAIN KANJI_DIGIT_VALUES
         THEN calendar_kanji_loop(Tail(text), section, <<KANJI_DIGIT_VALUES[ch]>>)
         ELSE IF IsAsciiDigit(ch)
         THEN calendar_kanji_loop(Tail(text), section, <<AsciiValue(ch)>>)
         ELSE IF ch \in NonDecimalDigits
         THEN ValueError
         ELSE IF ch \in DOMAIN KANJI_SMALL_UNITS
         THEN calendar_kanji_loop(Tail(text),
                  section + (IF current_digit # None THEN current_digit[1] ELSE 1)
                                * KANJI_SMALL_UNITS[ch],
                  None)
         ELSE None

\* faulty variant: the units are not read, only the digits
_convert_kanji_numeral_to_int_digits_only(text) ==
    LET cleaned == translate_fullwidth(text)
        digits == SelectSeq(cleaned, LAMBDA ch : ch \in DOMAIN KANJI_DIGIT_VALUES)
    IN  IF digits = <<>> THEN None
        ELSE <<int_of_digits([i \in 1..Len(digits) |-> KANJI_DIGIT_VALUES[digits[i]]], 0)>>

\* japanese_calendar.py: None or <<n>>
_convert_kanji_numeral_to_int(text) ==
    LET cleaned == translate_fullwidth(text)
    IN  IF cleaned = <<>> THEN None
        ELSE IF \A i \in 1..Len(cleaned) : cleaned[i] \in DOMAIN KANJI_DIGIT_VALUES
        THEN <<int_of_digits([i \in 1..Len(cleaned) |-> KANJI_DIGIT_VALUES[cleaned[i]]], 0)>>
        ELSE calendar_kanji_loop(cleaned, 0, None)

\* japanese_calendar.py: text is <<>> for None or the empty string
_normalise_number(text, default) ==
    LET candidate == translate_fullwidth(text)
    IN  IF text = <<>> THEN default
        ELSE IF text = <<"gan">> THEN 1
        ELSE IF \A i \in 1..Len(candidate) : IsAsciiDigit(candidate[i])
        THEN int_of_digits([i \in 1..Len(candidate) |-> AsciiValue(candidate[i])], 0)
        ELSE LET kanji_value == _convert_kanji_numeral_to_int(text)
             IN  IF kanji_value # None THEN kanji_value[1] ELSE default

KANJI_LARGE_UNITS == [ch \in {"man", "oku"} |->
                         CASE ch = "man" -> 10000 [] ch = "oku" -> 100000000]

\* timeline_generator.py lines 214-250: the loop over the characters.  The
\* third large unit (10^12) is beyond the integers of the model and is left
\* out of the glyphs.
RECURSIVE japanese_numerals_loop(_, _, _, _)
japanese_numerals_loop(text, total, section, current_digit) ==
    IF text = <<>>
    THEN LET result == total + section + (IF current_digit # None THEN current_digit[1] ELSE 0)
         IN  IF result # 0 THEN <<result>> ELSE None
    ELSE LET ch == Head(text) IN
         IF ch \in DOMAIN KANJI_DIGIT_VALUES
         THEN japanese_numerals_loop(Tail(text), total, section, <<KANJI_DIGIT_VALUES[ch]>>)
         ELSE IF IsAsciiDigit(ch)
         THEN japanese_numerals_loop(Tail(text), total, section, <<AsciiValue(ch)>>)
         ELSE IF ch \in NonDecimalDigits
         THEN ValueError
         ELSE IF ch \in DOMAIN KANJI_SMALL_UNITS
         THEN japanese_numerals_loop(Tail(text), total,
                  section + (IF current_digit # None THEN current_digit[1] ELSE 1)
                                * KANJI_SMALL_UNITS[ch],
                  None)
         ELSE IF ch \in DOMAIN KANJI_LARGE_UNITS
         THEN LET s1 == section + (IF current_digit # None THEN current_digit[1] ELSE 0)
                  s2 == IF s1 = 0 THEN 1 ELSE s1
              IN  japanese_numerals_loop(Tail(text), total + s2 * KANJI_LARGE_UNITS[ch], 0, None)
         ELSE None

\* timeline_generator.py: None or <<n>>, or ValueError
_convert_japanese_numerals_to_int(raw) ==
    LET cleaned == translate_fullwidth(SelectSeq(raw, LAMBDA ch : ch \notin NumeralSeparators))
    IN  IF cleaned = <<>> THEN None
        ELSE IF cleaned = <<"gan">> THEN <<1>>
        ELSE IF \A i \in 1..Len(cleaned) : cleaned[i] \in DOMAIN KANJI_DIGIT_VALUES
        THEN <<int_of_digits([i \in 1..Len(cleaned) |-> KANJI_DIGIT_VALUES[cleaned[i]]], 0)>>
        ELSE japanese_numerals_loop(cleaned, 0, 0, None)

\* timeline_generator.py: value is <<>> for None (a group that did not match);
\* a matched group holds characters of NUMERAL_CLASS only, so the
\* converter does not raise here
_parse_number(value, fallback) ==
    LET candidate == translate_fullwidth(value)
    IN  IF candidate = <<>> THEN fallback
        ELSE IF \A i \in 1..Len(candidate) : IsAsciiDigit(candidate[i])
        THEN int_of_digits([i \in 1..Len(candidate) |-> AsciiValue(candidate[i])], 0)
        ELSE LET kanji_value == _convert_japanese_numerals_to_int(value)
             IN  IF kanji_value # None THEN kanji_value[1] ELSE fallback

(***************************************************************************)
(* Date phrases: an optional era name, a year numeral, the year sign with  *)
(* or without the fiscal suffix, then an optional month and day.  The      *)
(* numerals are written in one of the scripts from the numbers they stand  *)
(* for.                                                                    *)
(***************************************************************************)
RECURSIVE DigitsOf(_)
DigitsOf(n) == IF n < 10 THEN <<n>> ELSE Append(DigitsOf(n \div 10), n % 10)

\* the numeral with units: each non-zero decimal place gives its digit
\* (left out when it is 1 before a unit) and its unit
UnitPlace(digit, unit) ==
    IF digit = 0 THEN <<>>
    ELSE IF digit = 1 THEN <<unit>>
    ELSE <<KanjiDigit[digit], unit>>

KanjiWithUnits(n) ==
    UnitPlace((n \div 1000) % 10, "sen") \o UnitPlace((n \div 100) % 10, "hyaku")
        \o UnitPlace((n \div 10) % 10, "ju")
        \o (IF n % 10 = 0 THEN <<>> ELSE <<KanjiDigit[n % 10]>>)

Scripts == {"arabic", "fullwidth", "kanji_digits", "kanji_units"}

WriteNumeral(script, n) ==
    CASE script = "arabic" -> [i \in 1..Len(DigitsOf(n)) |-> AsciiDigit[DigitsOf(n)[i]]]
      [] script = "fullwidth" -> [i \in 1..Len(DigitsOf(n)) |-> FullwidthDigit[DigitsOf(n)[i]]]
      [] script = "kanji_digits" -> [i \in 1..Len(DigitsOf(n)) |-> KanjiDigit[DigitsOf(n)[i]]]
      [] script = "kanji_units" -> KanjiWithUnits(n)
      [] script = "gan" -> <<"gan">>

MaxEraYear == 31

GregorianYears == {1900, 2020, 2023}

\* 0 stands for a month or a day that is not written
MonthChoices == {0, 1, 2, 4, 13}

DayChoices == {0, 1, 28, 29, 30, 31, 32}

\* a phrase with the numbers it states (n, m, d) and the glyphs that state
\* them
DatePhrase(era, script, suffix, n, m, d) ==
    LET other == IF script = "gan" THEN "kanji_units" ELSE script
    IN  [era |-> era, script |-> script, suffix |-> suffix, n |-> n, m |-> m, d |-> d,
         year |-> WriteNumeral(script, n),
         month |-> IF m = 0 THEN <<>> ELSE WriteNumeral(other, m),
         day |-> IF d = 0 THEN <<>> ELSE WriteNumeral(other, d)]

DatePhrases ==
    { DatePhrase(era, script, suffix, n, m, d) :
        era \in DOMAIN ERA_OFFSETS \cup {""}, script \in Scripts \cup {"gan"},
        suffix \in {"nen", "nendo"},
        n \in 1..MaxEraYear \cup GregorianYears, m \in MonthChoices, d \in DayChoices }

WellFormedPhrase(p) ==
    /\ p.m = 0 => p.d = 0
    /\ p.era = "" <=> p.n \in GregorianYears
    /\ p.script = "gan" => p.era # "" /\ p.n = 1

\* lines 301-365: the matches the four loops of iter_dates yield for the
\* phrase, in order.  An era match covers the whole phrase, so no other
\* pattern yields a match inside it; without an era name the DATE_PATTERNS
\* match the year sign unless the fiscal suffix follows it, and after a
\* fiscal suffix only the month-day pattern finds a match.
phrase_matches(p) ==
    IF p.era # ""
    THEN <<DateMatch(IF p.suffix = "nendo" THEN "erafiscal" ELSE "era", p.era,
                     _normalise_number(p.year, 1),
                     _normalise_number(p.month, 0), _normalise_number(p.day, 0))>>
    ELSE IF p.suffix = "nen"
    THEN <<Greg(_parse_number(p.year, 0), _parse_number(p.month, 0), _parse_number(p.day, 0))>>
    ELSE (IF p.month # <<>> /\ p.day # <<>>
          THEN <<Greg(0, _parse_number(p.month, 0), _parse_number(p.day, 0))>>
          ELSE <<>>)
         \o <<DateMatch("fiscal", "", _parse_number(p.year, 0), 0, 0)>>

InitDates ==
    /\ g = NoCall
    /\ txt = NoCall
    /\ \E p \in DatePhrases :
          /\ WellFormedPhrase(p)
          /\ tl = [op |-> "dates", pc |-> "phrase", phrase |-> p, events |-> <<>>]

\* list(iter_dates(sentence, reference)) for a sentence with the phrase
DIterDates ==
    /\ tl.op = "dates" /\ tl.pc = "phrase"
    /\ tl' = [tl EXCEPT !.pc = "resolved",
                        !.events = iter_dates(phrase_matches(tl.phrase), 2026)]
    /\ UNCHANGED <<g, txt>>

NextDates == DIterDates

SpecDates == InitDates /\ [][NextDates]_vars

Resolved == tl.op = "dates" /\ tl.pc = "resolved"

\* the Gregorian year the phrase states
StatedYear(p) == IF p.era # "" THEN ERA_OFFSETS[p.era] + p.n ELSE p.n

\* C16: a date written with the fiscal-year suffix resolves to April 1 of
\* the stated year, for a Gregorian year and for an era year, and the year
\* is not matched as a plain year date as well
C16_FiscalYearIsAprilFirst ==
    Resolved /\ tl.phrase.suffix = "nendo" =>
        /\ \E i \in 1..Len(tl.events) :
              tl.events[i].date_iso = <<StatedYear(tl.phrase), 4, 1>>
        /\ \A i \in 1..Len(tl.events) :
              ~(tl.events[i].date_text.kind = "greg" /\ tl.events[i].date_text.year # 0)

\* C17: an era name with an in-era year n, in Arabic, full-width or kanji
\* numerals or as the first-year glyph, resolves to the Gregorian year
\* offset + n; a month or a day that is not written is 1
C17_EraYearIsOffsetPlusN ==
    Resolved /\ tl.phrase.era # "" =>
        /\ Len(tl.events) = 1
        /\ tl.events[1].date_iso # None
        /\ tl.events[1].date_iso[1] = ERA_OFFSETS[tl.phrase.era] + tl.phrase.n
        /\ tl.phrase.m = 0 => tl.events[1].date_iso[2] = 1
        /\ tl.phrase.d = 0 => tl.events[1].date_iso[3] = 1
        /\ (tl.phrase.era = "reiwa" /\ tl.phrase.suffix = "nen" /\ tl.phrase.n = 3
            /\ tl.phrase.m = 4 /\ tl.phrase.d = 1) => tl.events[1].date_iso = <<2021, 4, 1>>

\* Showa 31 written with units and no month resolves to 1956-01-01
C17_Witness ==
    /\ Resolved /\ tl.phrase.era = "showa" /\ tl.phrase.script = "kanji_units"
    /\ tl.phrase.year = <<"K3", "ju", "K1">> /\ tl.phrase.suffix = "nen"
    /\ tl.phrase.m = 0
    /\ tl.events[1].date_iso = <<1956, 1, 1>>

\* C18: the month is clamped into 1..12 and the day into 1..the last day
\* of that month of that year, in Gregorian and in era notation alike: a
\* valid month and day are unchanged, others go to the nearest bound
C18_ClampedToCalendar ==
    Resolved /\ tl.phrase.suffix = "nen" /\ tl.phrase.m # 0 /\ tl.phrase.d # 0 =>
        LET year == StatedYear(tl.phrase)
            month == clamp(tl.phrase.m, 1, 12)
        IN  /\ Len(tl.events) = 1
            /\ tl.events[1].date_iso =
                   <<year, month, clamp(tl.phrase.d, 1, monthrange_last(year, month))>>

(***************************************************************************)
(* Longer texts over a few sentences that share two dates: the loop of     *)
(* generate_timeline with the state it had before the last sentence.       *)
(***************************************************************************)
MaxStoryLen == 3

StorySentences ==
    { Sentence("greg-2020-05-01", <<Greg(2020, 5, 1)>>, TRUE, FALSE, TRUE, Plain),
      Sentence("greg-2020-05-01-detailed", <<Greg(2020, 5, 1)>>, TRUE, FALSE, TRUE, Detailed),
      Sentence("greg-2020-05-01-rich", <<Greg(2020, 5, 1)>>, TRUE, FALSE, TRUE, Rich),
      Sentence("two-dates", <<Greg(2020, 5, 1), Greg(2019, 0, 0)>>, TRUE, FALSE, TRUE, Rich),
      Sentence("greg-2019", <<Greg(2019, 0, 0)>>, TRUE, FALSE, TRUE, Plain),
      Sentence("greg-50", <<Greg(50, 0, 0)>>, TRUE, FALSE, TRUE, Plain),
      Sentence("1976-years-ago", <<DateMatch("rel", "", 1976, 0, 0)>>, TRUE, FALSE, TRUE, Rich),
      Sentence("3000-years-ago", <<DateMatch("rel", "", 3000, 0, 0)>>, TRUE, FALSE, TRUE, Detailed),
      Sentence("greg-0", <<Greg(0, 0, 0)>>, TRUE, FALSE, TRUE, Plain),
      Sentence("greg-0-1", <<Greg(0, 1, 0)>>, TRUE, FALSE, TRUE, Rich),
      Sentence("date-only", <<Greg(2021, 1, 1)>>, FALSE, FALSE, TRUE, Plain),
      Sentence("followup", <<>>, TRUE, TRUE, FALSE, Detailed),
      Sentence("followup-rich", <<>>, TRUE, TRUE, FALSE, Rich),
      Sentence("undated", <<>>, TRUE, FALSE, FALSE, Plain) }

InitStory ==
    /\ g = NoCall
    /\ txt = NoCall
    /\ tl = [op |-> "timeline", pc |-> "scan", reference_year |-> 2026, fed |-> <<>>,
             st |-> [aggregated |-> <<>>, seen_pairs |-> {}, last_event_key |-> None],
             before |-> [aggregated |-> <<>>, seen_pairs |-> {}, last_event_key |-> None],
             max_events |-> None, ties |-> <<>>, sorted_entries |-> <<>>,
             items |-> <<>>, relation_threshold |-> None, dag |-> None]

\* one turn of the loop of line 848; before keeps the state it started from
SFeedSentence ==
    /\ tl.op = "timeline" /\ tl.pc = "scan"
    /\ Len(tl.fed) < MaxStoryLen
    /\ \E s \in StorySentences :
          tl' = [tl EXCEPT !.fed = Append(@, s.text),
                           !.before = tl.st,
                           !.st = fold_sentence(@, s, tl.reference_year)]
    /\ UNCHANGED <<g, txt>>

NextStory == SFeedSentence \/ Generate

SpecStory == InitStory /\ [][NextStory]_vars

StorySentenceOf(text) == CHOOSE s \in StorySentences : s.text = text

\* the sentence of the last turn of the loop
LastFed == StorySentenceOf(Last(tl.fed))

\* the last turn of the loop read a follow-up sentence with content
FollowupFed ==
    /\ tl.op = "timeline" /\ "before" \in DOMAIN tl /\ tl.fed # <<>>
    /\ LastFed.dates = <<>> /\ LastFed.followup /\ LastFed.meaningful

\* the turn attached the sentence to bucket i and to nothing else: the
\* sentence is in the description of bucket i, the other buckets are as
\* they were, no bucket was created, and title, date_text and date_iso of
\* bucket i are as they were
AttachedTo(i) ==
    /\ Len(tl.st.aggregated) = Len(tl.before.aggregated)
    /\ \A j \in 1..Len(tl.st.aggregated) :
          j # i => tl.st.aggregated[j] = tl.before.aggregated[j]
    /\ LastFed.text \in Range(tl.st.aggregated[i].sentences)
    /\ tl.st.aggregated[i].sentences \in
          {tl.before.aggregated[i].sentences,
           Append(tl.before.aggregated[i].sentences, LastFed.text)}
    /\ tl.st.aggregated[i].title = tl.before.aggregated[i].title
    /\ tl.st.aggregated[i].date_text = tl.before.aggregated[i].date_text
    /\ tl.st.aggregated[i].date_iso = tl.before.aggregated[i].date_iso

\* C19: a sentence without a date match that begins with a linking phrase
\* is attached to the most recently opened bucket (the last one created):
\* it is appended to its description, title and dates stay, no item is
\* created; it is discarded when no bucket has been opened yet
C19_AttachesToLastOpened ==
    FollowupFed =>
        IF tl.before.aggregated = <<>> THEN tl.st = tl.before
        ELSE AttachedTo(Len(tl.before.aggregated))

\* C19 (amended): the bucket is the one the last dated sentence opened or
\* extended
C19_AttachesToLastExtended ==
    FollowupFed =>
        IF tl.before.aggregated = <<>> THEN tl.st = tl.before
        ELSE AttachedTo(index_of_key(tl.before.aggregated, tl.before.last_event_key[1]))

\* a follow-up attached to the first of two buckets, which a dated
\* sentence had extended after the second was opened
C19_Witness ==
    /\ FollowupFed /\ Len(tl.before.aggregated) = 2
    /\ index_of_key(tl.before.aggregated, tl.before.last_event_key[1]) = 1
    /\ tl.st.aggregated[1].sentences # tl.before.aggregated[1].sentences

\* what a sentence scores in the bucket it is folded into
ImportanceOf(s) == score_importance(s, Len(s.people), Len(s.locations))

\* the earliest sentence of the description whose importance is the item's
MostSalient(item) ==
    item.description[CHOOSE k \in 1..Len(item.description) :
        /\ ImportanceOf(StorySentenceOf(item.description[k])) = item.importance
        /\ \A j \in 1..(k - 1) :
              ImportanceOf(StorySentenceOf(item.description[j])) # item.importance]

\* the title and date fields of a bucket that was there before the last
\* turn changed only if the sentence of that turn scores strictly more than
\* the bucket's maximum before it
ChangedOnlyOnMoreSalient ==
    tl.fed # <<>> =>
        \A i \in 1..Len(tl.before.aggregated) :
            (\/ tl.st.aggregated[i].title # tl.before.aggregated[i].title
             \/ tl.st.aggregated[i].date_text # tl.before.aggregated[i].date_text
             \/ tl.st.aggregated[i].date_iso # tl.before.aggregated[i].date_iso)
            => ImportanceOf(LastFed) > tl.before.aggregated[i].importance

\* C20: title and date fields change only on a sentence whose importance
\* strictly exceeds the bucket's current maximum, and the final title is
\* built from the most salient contributing sentence: the earliest one
\* whose importance equals the item's importance
C20_TitleFromMostSalient ==
    tl.op = "timeline" /\ "before" \in DOMAIN tl =>
        /\ ChangedOnlyOnMoreSalient
        /\ tl.pc = "items" =>
              \A i \in 1..Len(tl.items) :
                  tl.items[i].title[1] = MostSalient(tl.items[i])

\* C20 (amended): the title is built from the earliest most salient
\* sentence when that sentence is a dated one; a follow-up sentence never
\* gives the title, yet raises the maximum later sentences must exceed
C20_TitleFromMostSalientDated ==
    tl.op = "timeline" /\ "before" \in DOMAIN tl =>
        /\ ChangedOnlyOnMoreSalient
        /\ tl.pc = "items" =>
              \A i \in 1..Len(tl.items) :
                  /\ StorySentenceOf(tl.items[i].title[1]).dates # <<>>
                  /\ tl.items[i].title[1] \in Range(tl.items[i].description)
                  /\ StorySentenceOf(MostSalient(tl.items[i])).dates # <<>>
                        => tl.items[i].title[1] = MostSalient(tl.items[i])

\* an item of three sentences whose title comes from the second, and an
\* equally salient third that left it alone
C20_Witness ==
    /\ tl.op = "timeline" /\ "before" \in DOMAIN tl /\ tl.pc = "items"
    /\ Len(tl.items) = 1
    /\ Len(tl.items[1].description) = 3
    /\ tl.items[1].title[1] = tl.items[1].description[2]
    /\ ImportanceOf(StorySentenceOf(tl.items[1].description[3])) = tl.items[1].importance

SetMax(S) == CHOOSE x \in S : \A y \in S : y <= x

\* C21: while sentences are folded into a bucket its importance never
\* decreases, and after each sentence it is the maximum of the importance
\* scores of all the sentences, dated or follow-up, folded into it so far
C21_ImportanceIsRunningMaximum ==
    tl.op = "timeline" /\ "before" \in DOMAIN tl =>
        /\ \A i \in 1..Len(tl.before.aggregated) :
              tl.st.aggregated[i].importance >= tl.before.aggregated[i].importance
        /\ \A i \in 1..Len(tl.st.aggregated) :
              /\ tl.st.aggregated[i].sentences # <<>>
              /\ tl.st.aggregated[i].importance =
                     SetMax({ImportanceOf(StorySentenceOf(t)) :
                                t \in Range(tl.st.aggregated[i].sentences)})

\* a follow-up raised the importance of a bucket of three sentences above
\* what its dated sentences score
C21_Witness ==
    /\ FollowupFed /\ tl.pc = "scan"
    /\ \E i \in 1..Len(tl.st.aggregated) :
          /\ Len(tl.st.aggregated[i].sentences) = 3
          /\ tl.st.aggregated[i].importance > tl.before.aggregated[i].importance
          /\ tl.st.aggregated[i].importance = ImportanceOf(LastFed)

\* the edge from the item before item j to item j, if there is one
EdgesInto(dag, j) ==
    {e \in Range(dag.edges) : e.source_id = dag.nodes[j - 1].id /\ e.target_id = dag.nodes[j].id}

\* item j is dated, follows a dated item, and its text is the sentence
Follows(dag, j, text) ==
    /\ j \in 2..Len(dag.nodes)
    /\ dag.nodes[j].description = <<text>>
    /\ dag.nodes[j].date_iso # None /\ dag.nodes[j - 1].date_iso # None

\* C22: at the default threshold, two consecutive dated events of which the
\* later says "koreniyori hajimete" get an edge of type prerequisite, and
\* two of which the later says "korewo keikini" get an edge of type derived
C22_PrerequisiteAndDerivedEdges ==
    DagBuilt /\ tl.relation_threshold = <<500>> =>
        \A j \in 1..Len(tl.dag[1].nodes) :
            /\ Follows(tl.dag[1], j, "koreniyori-hajimete-2020-06") =>
                  \E e \in EdgesInto(tl.dag[1], j) : e.relation_type = "prerequisite"
            /\ Follows(tl.dag[1], j, "korewo-keikini-2020-07") =>
                  \E e \in EdgesInto(tl.dag[1], j) : e.relation_type = "derived"

BeforeCommonEra == {"kigenzen-660", "sonogo-kigenzen-600"}

ItemOf(text) == CHOOSE i \in 1..Len(tl.items) : text \in Range(tl.items[i].description)

HasItemOf(text) == \E i \in 1..Len(tl.items) : text \in Range(tl.items[i].description)

\* C23: a date with the prefix for "before the common era" gives an item
\* whose date_iso has a negative year; such items are in chronological
\* order (660 before 600); and build_timeline_dag links two of them that a
\* temporal marker connects by at least one edge
C23_BeforeCommonEra ==
    Returned =>
        /\ \A i \in 1..Len(tl.items) :
              Range(tl.items[i].description) \cap BeforeCommonEra # {} =>
                  tl.items[i].date_iso # None /\ tl.items[i].date_iso[1] < 0
        /\ HasItemOf("kigenzen-660") /\ HasItemOf("sonogo-kigenzen-600") =>
              ItemOf("kigenzen-660") < ItemOf("sonogo-kigenzen-600")
        /\ (/\ DagBuilt /\ tl.relation_threshold = <<500>>
            /\ tl.fed = <<"kigenzen-660", "sonogo-kigenzen-600">>
            /\ Len(tl.items) = 2) => tl.dag[1].edges # <<>>

\* the sort candidates of the date matches that were folded into the
\* bucket of this key
StoryCandidatesOf(key) ==
    { _parse_sort_candidate(e.date_iso, e.date_text, e.relative_years, e.reference_year) :
        e \in UNION { IF StorySentenceOf(t).meaningful
                      THEN {e \in Range(iter_dates(StorySentenceOf(t).dates, tl.reference_year)) :
                                event_key(e) = key}
                      ELSE {} : t \in Range(tl.fed) } } \ {None}

\* the best of them: the earliest (year, month, day), then the finest
\* precision; None when there is none
BestSortTuple(key) ==
    IF StoryCandidatesOf(key) = {} THEN None
    ELSE CHOOSE c \in StoryCandidatesOf(key) :
             \A d \in StoryCandidatesOf(key) : c = d \/ TupleLess(c, d)

\* bucket a is to come before bucket b
ComesBefore(a, b) ==
    LET ka == BestSortTuple(a.key)
        kb == BestSortTuple(b.key)
        first(e) == index_of_key(tl.st.aggregated, e.key)
    IN  IF ka # None /\ kb # None
        THEN TupleLess(ka \o <<-a.importance, first(a)>>, kb \o <<-b.importance, first(b)>>)
        ELSE IF ka # None THEN TRUE
        ELSE IF kb # None THEN FALSE
        ELSE first(a) < first(b)

\* C24: the output is in ascending order of each bucket's best sort tuple
\* (year, month, day, precision), then descending importance, then first
\* appearance; buckets without a sort tuple come after all the others, in
\* order of first appearance; a relative date too old for an ISO form
\* sorts by its approximate year
C24_OutputOrder ==
    tl.op = "timeline" /\ "before" \in DOMAIN tl /\ tl.pc = "items" =>
        /\ Len(tl.sorted_entries) = Len(tl.st.aggregated)
        /\ Range(tl.sorted_entries) = Range(tl.st.aggregated)
        /\ \A i, j \in 1..Len(tl.sorted_entries) :
              i < j => ComesBefore(tl.sorted_entries[i], tl.sorted_entries[j])
        /\ \A k \in 1..Len(tl.items) :
              tl.items[k].description = tl.sorted_entries[k].sentences

\* three items: a relative date without ISO form ahead of the year it
\* approximates, being more important though it appeared later, and the
\* bucket without a sort tuple, which appeared first, last
C24_Witness ==
    /\ tl.op = "timeline" /\ "before" \in DOMAIN tl /\ tl.pc = "items"
    /\ tl.fed = <<"greg-0", "greg-50", "1976-years-ago">>
    /\ Len(tl.items) = 3
    /\ tl.items[1].description = <<"1976-years-ago">>
    /\ tl.items[2].description = <<"greg-50">>
    /\ tl.items[3].description = <<"greg-0">>
    /\ tl.items[1].date_iso = None

\* the Gregorian matches of the text whose year is one of these
GregorianMatchesIn(years) ==
    UNION { IF StorySentenceOf(t).meaningful
            THEN {m \in Range(StorySentenceOf(t).dates) : m.kind = "greg" /\ m.year \in years}
            ELSE {} : t \in Range(tl.fed) }

\* the match has no ISO date, its bucket is keyed by the date text, and the
\* bucket sorts by the year of the match, ahead of every bucket dated in
\* year 100 or later; its item has no ISO date
SortsBySmallYear(m) ==
    LET e == raw_event(m, tl.reference_year) IN
    /\ e.date_iso = None
    /\ event_key(e) = e.date_text
    /\ \E i \in 1..Len(tl.sorted_entries) :
          /\ tl.sorted_entries[i].key = e.date_text
          /\ tl.sorted_entries[i].sort_key # None
          /\ tl.sorted_entries[i].sort_key[1] = m.year
          /\ \A j \in 1..Len(tl.sorted_entries) :
                (/\ tl.sorted_entries[j].date_iso # None
                 /\ tl.sorted_entries[j].date_iso[1] >= 100) => i < j
          /\ i <= Len(tl.items) => tl.items[i].date_iso = None
          /\ tl.max_events[1] >= i => i <= Len(tl.items)

CyclePairs(cycle) ==
    {<<cycle[i], cycle[(i % Len(cycle)) + 1]>> : i \in 1..Len(cycle)}

\* edge_map as iteration k left it
EdgeMapAfter(k) ==
    IF k < Len(g.removed) THEN g.removed[k + 1].edge_map
    ELSE IF g.op = "resolving" THEN g.edge_map ELSE g.out

\* every iteration made so far took exactly one edge out of edge_map
IterationsRemoveOne ==
    \A k \in 1..Len(g.removed) :
        /\ Len(EdgeMapAfter(k)) = Len(g.removed[k].edge_map) - 1
        /\ IsSubSeq(EdgeMapAfter(k), g.removed[k].edge_map)
        /\ g.removed[k].edge \in Range(g.removed[k].edge_map)
        /\ g.removed[k].edge \notin Range(EdgeMapAfter(k))

\* a call inside the loop has candidates for the cycle it holds, so its
\* next iteration removes an edge, and the iterations made plus the edges
\* left in edge_map are the distinct pairs of the input: the loop runs at
\* most that many times
StillRunning ==
    /\ g.cycle # <<>> => cycle_candidates(g.edge_map, g.cycle) # <<>>
    /\ Len(g.removed) + Len(g.edge_map) = Cardinality(EdgePairs(g.edges))

\* C26: detect_and_resolve_cycles terminates on every finite edge list
\* (self-loops, two-node cycles, overlapping cycles and duplicate pairs
\* included), removes one edge per iteration, and what it returns has no
\* directed cycle
C26_CycleResolutionTerminates ==
    g.op \in {"resolving", "resolved"} =>
        /\ IterationsRemoveOne
        /\ g.op = "resolving" => StillRunning
        /\ g.op = "resolved" =>
              /\ ~g.broke
              /\ Acyclic(EdgePairs(g.out))
              /\ g.out = detect_and_resolve_cycles(g.edges)

\* a self-loop on a two-node cycle, with the pair of the cycle given
\* twice: two iterations, and the result has no cycle
C26_Witness ==
    /\ g.op = "resolved"
    /\ Len(g.removed) = 2
    /\ \E a, b \in NodeIds :
          /\ a # b
          /\ <<a, a>> \in EdgePairs(g.edges)
          /\ <<a, b>> \in EdgePairs(g.edges)
          /\ <<b, a>> \in EdgePairs(g.edges)
    /\ Acyclic(EdgePairs(g.out))

\* an edge of the set of pairs E lies on a directed cycle of E
OnCycle(p, E) == p \in E /\ (p[1] = p[2] \/ Reaches(p[2], p[1], E))

\* the cycle of iteration k is a directed cycle of the edge_map of that
\* moment that repeats no node, and the edge removed is one of its edges,
\* none of which is weaker
RemovedFromRealCycle(k) ==
    LET r == g.removed[k]
        E == EdgePairs(r.edge_map)
    IN  /\ r.cycle # <<>>
        /\ \A i, j \in 1..Len(r.cycle) : i # j => r.cycle[i] # r.cycle[j]
        /\ CyclePairs(r.cycle) \subseteq E
        /\ r.edge \in Range(r.edge_map)
        /\ EdgeKey(r.edge) \in CyclePairs(r.cycle)
        /\ OnCycle(EdgeKey(r.edge), E)
        /\ \A e \in Range(r.edge_map) :
              EdgeKey(e) \in CyclePairs(r.cycle) =>
                  r.edge.relation_strength <= e.relation_strength

\* C27: every edge removed by detect_and_resolve_cycles is, when it is
\* removed, an edge of a real directed cycle of the current edge set (the
\* node sequence found by the search) and has the least relation_strength
\* among that cycle's edges; so an edge that lies on no cycle is never
\* removed, and an acyclic input is returned unchanged
C27_RemovesWeakestOfRealCycle ==
    g.op \in {"resolving", "resolved"} =>
        /\ \A k \in 1..Len(g.removed) : RemovedFromRealCycle(k)
        /\ g.op = "resolved" =>
              /\ \A p \in EdgePairs(g.edges) :
                    ~OnCycle(p, EdgePairs(g.edges)) => p \in EdgePairs(g.out)
              /\ Acyclic(EdgePairs(g.edges)) => g.out = g.edges

\* a cycle of three nodes whose weakest edge is not the first one found,
\* and is the one removed
C27_Witness ==
    /\ g.op = "resolved"
    /\ Len(g.removed) = 1
    /\ Len(g.removed[1].cycle) = 3
    /\ \E e \in Range(g.removed[1].edge_map) :
          e.relation_strength > g.removed[1].edge.relation_strength
    /\ g.removed[1].edge # cycle_candidates(g.removed[1].edge_map, g.removed[1].cycle)[1]
    /\ Len(g.out) = 2

\* the simple directed paths from a to b over the edges, as node
\* sequences, that use at most d edges
SimplePaths(a, b, edges, d) ==
    {p \in SeqsUpTo(NodeIds, Cardinality(NodeIds)) :
        /\ Len(p) >= 1 /\ Len(p) - 1 <= d
        /\ p[1] = a /\ p[Len(p)] = b
        /\ \A i, j \in 1..Len(p) : i # j => p[i] # p[j]
        /\ \A i \in 1..(Len(p) - 1) : <<p[i], p[i + 1]>> \in EdgePairs(edges)}

\* C28: find_paths returns exactly the simple directed paths from start to
\* end that use at most max_depth edges: each begins with start, ends with
\* end, follows an edge at every step and repeats no node; every such path
\* is returned (once, when no pair is given twice), none when there is none
C28_FindPathsExact ==
    g.op = "paths" =>
        /\ Range(g.out) = SimplePaths(g.start, g.end, g.edges, g.max_depth)
        /\ Cardinality(EdgePairs(g.edges)) = Len(g.edges) =>
              \A i, j \in 1..Len(g.out) : i # j => g.out[i] # g.out[j]

\* a direct edge and a detour of two edges, both returned at max_depth 2
C28_Witness ==
    /\ g.op = "paths"
    /\ g.max_depth = 2
    /\ g.start # g.end
    /\ Cardinality(Range(g.out)) = 2
    /\ <<g.start, g.end>> \in Range(g.out)
    /\ \E p \in Range(g.out) : Len(p) = 3

\* the same edges at max_depth 1: the detour is left out
C28_WitnessDepth ==
    /\ g.op = "paths"
    /\ g.max_depth = 1
    /\ g.out = <<(<<g.start, g.end>>)>>
    /\ \E n \in NodeIds : {<<g.start, n>>, <<n, g.end>>} \subseteq EdgePairs(g.edges) /\ n \notin {g.start, g.end}

(***************************************************************************)
(* SpecNumerals: _convert_japanese_numerals_to_int applied to a numeral    *)
(* written from the number it stands for (value is that number), or to any *)
(* string of up to MaxNumeralLen glyphs of NumeralAlphabet (value None).   *)
(***************************************************************************)
MaxNumeralLen == 3

MaxNumber == 2100

NumeralAlphabet == {"K2", "K0", "ju", "sen", "man", "1", "gan", "x", ",", "sup2"}

\* the glyphs of NUMERAL_CLASS
NumeralGlyphs ==
    {AsciiDigit[d] : d \in 0..9} \cup {FullwidthDigit[d] : d \in 0..9}
        \cup DOMAIN KANJI_DIGIT_VALUES \cup DOMAIN KANJI_SMALL_UNITS
        \cup DOMAIN KANJI_LARGE_UNITS \cup {"gan"}

\* sections of four decimal places, each closed by its large unit
KanjiNumeral(n) ==
    LET oku == n \div 100000000
        man == (n \div 10000) % 10000
    IN  (IF oku = 0 THEN <<>> ELSE KanjiWithUnits(oku) \o <<"oku">>)
            \o (IF man = 0 THEN <<>> ELSE KanjiWithUnits(man) \o <<"man">>)
            \o KanjiWithUnits(n % 10000)

\* the numbers written out: the small ones, and some with large units
WrittenNumbers ==
    (1..MaxNumber)
        \cup ({a * 100000000 + b * 10000 + c :
                  a \in {0, 1, 2, 20}, b \in {0, 1, 2, 12, 2000, 9999}, c \in {0, 1, 14, 2014}}
              \ {0})

InitNumerals ==
    /\ g = NoCall
    /\ tl = NoCall
    /\ \/ \E n \in WrittenNumbers :
             txt = [op |-> "numeral", pc |-> "raw", raw |-> KanjiNumeral(n), value |-> <<n>>]
       \/ \E n \in 1..MaxNumber :
             txt = [op |-> "numeral", pc |-> "raw", raw |-> WriteNumeral("kanji_digits", n),
                    value |-> <<n>>]
       \/ txt = [op |-> "numeral", pc |-> "raw", raw |-> <<"gan">>, value |-> <<1>>]
       \/ \E r \in SeqsUpTo(NumeralAlphabet, MaxNumeralLen) :
             txt = [op |-> "numeral", pc |-> "raw", raw |-> r, value |-> None]

NConvert ==
    /\ txt.op = "numeral" /\ txt.pc = "raw"
    /\ txt' = [op |-> "numeral", pc |-> "converted", raw |-> txt.raw, value |-> txt.value,
               out |-> _convert_japanese_numerals_to_int(txt.raw)]
    /\ UNCHANGED <<g, tl>>

NextNumerals == NConvert

SpecNumerals == InitNumerals /\ [][NextNumerals]_vars

\* a numeral written from a number is converted to that number
WellFormedNumeralsConverted ==
    txt.op = "numeral" /\ txt.pc = "converted" /\ txt.value # None => txt.out = txt.value

\* a string with a character that is neither a numeral character nor a
\* separator, and without a digit of another kind, is converted to None
ForeignCharactersRejected ==
    txt.op = "numeral" /\ txt.pc = "converted"
        /\ (\E i \in 1..Len(txt.raw) : txt.raw[i] \notin NumeralGlyphs \cup NumeralSeparators)
        /\ (\A i \in 1..Len(txt.raw) : txt.raw[i] \notin NonDecimalDigits)
    => txt.out = None

\* C29: the converter reads the numeral in one pass from left to right (a
\* digit sets the pending value, a small unit multiplies the pending value,
\* 1 by default, into the section, a large unit closes the section into
\* the total); the result of every well-formed numeral is its numeric
\* value, and a string containing a non-numeral character gives None
C29_KanjiNumeralConverter ==
    txt.op = "numeral" /\ txt.pc = "converted" =>
        /\ txt.value # None => txt.out = txt.value
        /\ (\E i \in 1..Len(txt.raw) : txt.raw[i] \notin NumeralGlyphs) => txt.out = None

\* 2014 written with units and 20000 written with the large unit, converted
C29_Witness ==
    /\ txt.op = "numeral" /\ txt.pc = "converted"
    /\ \/ txt.raw = <<"K2", "sen", "ju", "K4">> /\ txt.out = <<2014>>
       \/ txt.raw = <<"K2", "man">> /\ txt.out = <<20000>>

\* C30: on an acyclic edge list reduce_transitive_edges preserves
\* reachability (v is reachable from u over the returned edges exactly when
\* it is over the input edges), returns a sub-list of the input in the same
\* order, and returns no edge (u, v) that has another path from u to v
\* among the returned edges
C30_ReductionPreservesReachability ==
    (g.op = "reduced" /\ Acyclic(EdgePairs(g.edges))) =>
        /\ \A u, v \in NodeIds :
              Reaches(u, v, EdgePairs(g.out)) <=> Reaches(u, v, EdgePairs(g.edges))
        /\ IsSubSeq(g.out, g.edges)
        /\ \A p \in EdgePairs(g.out) : ~Reaches(p[1], p[2], EdgePairs(g.out) \ {p})

\* the first edge of the list was dropped, the other two are returned in
\* their order and still lead from its source to its target
C30_Witness ==
    /\ g.op = "reduced"
    /\ Len(g.edges) = 3
    /\ g.out = <<g.edges[2], g.edges[3]>>
    /\ EdgeKey(g.edges[1]) \notin EdgePairs(g.out)
    /\ Reaches(g.edges[1].source_id, g.edges[1].target_id, EdgePairs(g.out))

=============================================================================
